---- MODULE Spec2Model ----
(***************************************************************************)
(* Model of the PolyStat honeycomb viewport: the App grouping state        *)
(* (App.tsx), the HexGrid viewport controller (HexGrid.tsx) and the        *)
(* FloatingGroupHeaders overlay (FloatingGroupHeaders.tsx), together with  *)
(* the window events and timers that connect them.                         *)
(*                                                                         *)
(* Numbers.  JavaScript numbers are modelled as exact rationals <<n, d>>   *)
(* with d > 0 in lowest terms, so that the real-arithmetic identities of   *)
(* the code can be checked exactly; Math.sqrt(3) is the rational Sqrt3.    *)
(* Time is counted in units of 10 ms.                                      *)
(***************************************************************************)
EXTENDS Integers, Sequences, FiniteSets, TLC

----------------------------------------------------------------------------
(* Exact rational arithmetic                                               *)

Abs(i) == IF i < 0 THEN -i ELSE i

RECURSIVE GCD(_, _)
GCD(a, b) == IF b = 0 THEN a ELSE GCD(b, a % b)

Max(a, b) == IF a > b THEN a ELSE b

(* n/d with the common factor g removed and a positive denominator *)
Lowest(n, d, g) ==
  IF d < 0 THEN <<(-n) \div g, (-d) \div g>> ELSE <<n \div g, d \div g>>

Frac(n, d) == IF n = 0 THEN <<0, 1>> ELSE Lowest(n, d, GCD(Abs(n), Abs(d)))

R(i) == <<i, 1>>

(* p + q over the least common denominator, g the gcd of the denominators *)
AddOver(p, q, g) ==
  Frac(p[1] * (q[2] \div g) + q[1] * (p[2] \div g), (p[2] \div g) * q[2])

RAdd(p, q) == AddOver(p, q, GCD(p[2], q[2]))

RNeg(p) == <<-p[1], p[2]>>

RSub(p, q) == RAdd(p, RNeg(q))

(* the product of two fractions without common factors *)
Times(a, b) == <<a[1] * b[1], a[2] * b[2]>>

RMul(p, q) == Times(Frac(p[1], q[2]), Frac(q[1], p[2]))

RDiv(p, q) == RMul(p, Frac(q[2], q[1]))

(* Math.floor and Math.ceil of a rational *)
RFloor(p) == p[1] \div p[2]

RCeil(p) == -((-p[1]) \div p[2])

(* p <= q: the integer parts decide, else the fractional parts *)
LeOver(p, q, fp, fq, g) ==
  IF fp # fq THEN fp < fq
  ELSE (p[1] - fp * p[2]) * (q[2] \div g) <= (q[1] - fq * q[2]) * (p[2] \div g)

RLe(p, q) == LeOver(p, q, RFloor(p), RFloor(q), GCD(p[2], q[2]))

RLt(p, q) == ~RLe(q, p)

RMin(p, q) == IF RLe(p, q) THEN p ELSE q

RMax(p, q) == IF RLe(p, q) THEN q ELSE p

RAbs(p) == <<Abs(p[1]), p[2]>>

(* Math.ceil(Math.sqrt(p)) for p >= 0: the least c with c*c >= p *)
RECURSIVE CeilSqrtFrom(_, _)
CeilSqrtFrom(p, c) == IF c * c * p[2] >= p[1] THEN c ELSE CeilSqrtFrom(p, c + 1)

CeilSqrt(p) == CeilSqrtFrom(p, 0)

(* Math.min / Math.max over a non-empty sequence of rationals *)
RECURSIVE RMinSeq(_)
RMinSeq(s) == IF Len(s) = 1 THEN s[1] ELSE RMin(s[1], RMinSeq(Tail(s)))

RECURSIVE RMaxSeq(_)
RMaxSeq(s) == IF Len(s) = 1 THEN s[1] ELSE RMax(s[1], RMaxSeq(Tail(s)))

(* Math.sqrt(3), to three decimals *)
Sqrt3 == Frac(1732, 1000)

----------------------------------------------------------------------------
(* Data: MetricPoint records and the query results                         *)

(* the value of an absent optional field or label (undefined) *)
Undef == ""

(* groupOffset / groupArea / groupId of a metric outside grouped mode *)
NoOffset == <<>>

NoGroupId == -1

MetricPoint(n, v, la, lb) ==
  [name |-> n, value |-> v, labels |-> [a |-> la, b |-> lb],
   groupOffset |-> NoOffset, groupArea |-> NoOffset, groupId |-> NoGroupId]

(* query results the backend can return *)
DataFour ==
  << MetricPoint("m1", 10, "x", "p"), MetricPoint("m2", 50, "x", "q"),
     MetricPoint("m3", 90, "y", "p"), MetricPoint("m4", 50, "y", "p") >>

DataOne == << MetricPoint("m1", 10, "x", "p") >>

DataSets == {DataFour, DataOne}

LabelKeys == {"a", "b"}

(* container sizes (window.innerWidth, window.innerHeight) *)
ContainerSizes == {<<1200, 900>>, <<1000, 498>>}

(* labels[key], undefined when the key is absent *)
LabelOf(metric, key) ==
  IF key \in DOMAIN metric.labels THEN metric.labels[key] ELSE Undef

(* [...items].sort((a, b) => b.value - a.value): stable, descending *)
RECURSIVE InsertDesc(_, _)
InsertDesc(item, s) ==
  IF s = <<>> THEN <<item>>
  ELSE IF s[1].value >= item.value THEN <<s[1]>> \o InsertDesc(item, Tail(s))
  ELSE <<item>> \o s

RECURSIVE SortDescFrom(_, _)
SortDescFrom(s, acc) ==
  IF s = <<>> THEN acc ELSE SortDescFrom(Tail(s), InsertDesc(s[1], acc))

(* the items left in their input order *)
SortDescSkipped(s) == s

SortDesc(s) == SortDescFrom(s, <<>>)

MAX_HEXAGONS_DEFAULT == 1000

(* usePolyStat.optimizeGridLayout *)
optimizeGridLayout(data, maxHexagons) ==
  IF Len(data) <= maxHexagons THEN data
  ELSE SubSeq(SortDesc(data), 1, maxHexagons) \o
       << [name |-> "others", value |-> Len(data) - maxHexagons,
           labels |-> [type |-> "summary"],
           groupOffset |-> NoOffset, groupArea |-> NoOffset,
           groupId |-> NoGroupId] >>

dataToShow(rawData) == optimizeGridLayout(rawData, MAX_HEXAGONS_DEFAULT)

----------------------------------------------------------------------------
(* App: grouping (groupedData) and cluster layout (groupedClusterLayout)   *)

InitialGroupByState ==
  [isActive |-> FALSE, groupKey |-> Undef, selectedGroupValue |-> Undef,
   previousGroupKey |-> Undef, filterStack |-> <<>>, currentLevel |-> 0]

(* the filter stack applied in order, then the selected-group filter *)
filteredData(data, gbs) ==
  LET passStack(m) ==
        \A i \in 1..Len(gbs.filterStack) :
          LabelOf(m, gbs.filterStack[i].labelKey) = gbs.filterStack[i].labelValue
      passSelected(m) ==
        (gbs.selectedGroupValue # Undef /\ gbs.previousGroupKey # Undef)
          => LabelOf(m, gbs.previousGroupKey) = gbs.selectedGroupValue
  IN  SelectSeq(data, LAMBDA m : passStack(m) /\ passSelected(m))

(* distinct group values in first-seen order *)
RECURSIVE GroupValues(_, _, _)
GroupValues(s, key, seen) ==
  IF s = <<>> THEN seen
  ELSE LET v == LabelOf(s[1], key)
       IN  IF v = Undef \/ (\E i \in 1..Len(seen) : seen[i] = v)
           THEN GroupValues(Tail(s), key, seen)
           ELSE GroupValues(Tail(s), key, Append(seen, v))

groupedDataIsNull(data, gbs) ==
  ~gbs.isActive \/ gbs.groupKey = Undef \/ Len(data) = 0

groupedData(data, gbs) ==
  LET fd   == filteredData(data, gbs)
      vals == GroupValues(fd, gbs.groupKey, <<>>)
  IN  [i \in 1..Len(vals) |->
         [groupKey |-> gbs.groupKey, groupValue |-> vals[i],
          metrics |-> SelectSeq(fd, LAMBDA m : LabelOf(m, gbs.groupKey) = vals[i])]]

RECURSIVE SumLen(_)
SumLen(groups) ==
  IF groups = <<>> THEN 0 ELSE Len(groups[1].metrics) + SumLen(Tail(groups))

RECURSIVE Flatten(_)
Flatten(ss) == IF ss = <<>> THEN <<>> ELSE ss[1] \o Flatten(Tail(ss))

(* the fixed split of the container and the grid of group zones *)
clusterGrid(groupCount, containerSize) ==
  LET W == R(containerSize[1])
      H == R(containerSize[2])
      uiHeight == RDiv(H, R(3))
      clustersHeight == RDiv(RMul(H, R(2)), R(3))
      horizontalMargin == RMul(W, Frac(5, 100))
      availableWidth == RSub(W, RMul(horizontalMargin, R(2)))
      availableHeight == clustersHeight
      aspectRatio == RDiv(availableWidth, availableHeight)
      shape(cols) ==
        [uiHeight |-> uiHeight, horizontalMargin |-> horizontalMargin,
         availableWidth |-> availableWidth, availableHeight |-> availableHeight,
         cols |-> cols, rows |-> Max(1, RCeil(Frac(groupCount, cols)))]
  IN  shape(Max(1, CeilSqrt(RMul(R(groupCount), aspectRatio))))

(* the zoom that depends on the group count and the group density *)
autoZoom(groupCount, totalMetrics) ==
  LET baseZoom == IF groupCount <= 2 THEN Frac(8, 10)
                  ELSE IF groupCount <= 4 THEN Frac(5, 10)
                  ELSE IF groupCount <= 6 THEN Frac(35, 100)
                  ELSE Frac(25, 100)
      (* totalMetrics / groupCount is NaN for no group: every test fails *)
      densityFactor ==
        IF groupCount = 0 THEN Frac(8, 10)
        ELSE IF totalMetrics <= 5 * groupCount THEN Frac(11, 10)
        ELSE IF totalMetrics <= 15 * groupCount THEN R(1)
        ELSE IF totalMetrics <= 30 * groupCount THEN Frac(9, 10)
        ELSE Frac(8, 10)
  IN  RMax(Frac(1, 10), RMin(R(1), RMul(baseZoom, densityFactor)))

(* group zones that use 160% of their share of the space *)
groupZoneWide(cg, finalZoom) ==
  LET totalGroupWidth == RDiv(RDiv(cg.availableWidth, finalZoom), R(cg.cols))
      totalGroupHeight == RDiv(RDiv(cg.availableHeight, finalZoom), R(cg.rows))
      groupWidth == RMul(totalGroupWidth, Frac(160, 100))
      groupHeight == RMul(totalGroupHeight, Frac(160, 100))
  IN  [totalGroupWidth |-> totalGroupWidth, totalGroupHeight |-> totalGroupHeight,
       groupWidth |-> groupWidth, groupHeight |-> groupHeight,
       spacingOffsetX |-> RDiv(RSub(totalGroupWidth, groupWidth), R(2)),
       spacingOffsetY |-> RDiv(RSub(totalGroupHeight, groupHeight), R(2))]

(* the dimensions of a group zone at the given zoom *)
groupZone(cg, finalZoom) ==
  LET virtualAvailableWidth == RDiv(cg.availableWidth, finalZoom)
      virtualAvailableHeight == RDiv(cg.availableHeight, finalZoom)
      groupSpacingRatio == Frac(60, 100)
      zone(totalGroupWidth, totalGroupHeight, groupWidth, groupHeight) ==
        [totalGroupWidth |-> totalGroupWidth, totalGroupHeight |-> totalGroupHeight,
         groupWidth |-> groupWidth, groupHeight |-> groupHeight,
         spacingOffsetX |-> RDiv(RSub(totalGroupWidth, groupWidth), R(2)),
         spacingOffsetY |-> RDiv(RSub(totalGroupHeight, groupHeight), R(2))]
      spaced(totalGroupWidth, totalGroupHeight) ==
        zone(totalGroupWidth, totalGroupHeight,
             RMul(totalGroupWidth, groupSpacingRatio),
             RMul(totalGroupHeight, groupSpacingRatio))
  IN  spaced(RDiv(virtualAvailableWidth, R(cg.cols)),
             RDiv(virtualAvailableHeight, R(cg.rows)))

(* groupedData.forEach: the offsets of the metrics and the group labels *)
placeGroups(groups, cg, z, finalZoom) ==
  LET groupX(index) ==
        RAdd(RAdd(cg.horizontalMargin,
                  RMul(R(index % cg.cols), z.totalGroupWidth)),
             z.spacingOffsetX)
      groupY(index) ==
        RAdd(RAdd(cg.uiHeight,
                  RMul(R(index \div cg.cols), z.totalGroupHeight)),
             z.spacingOffsetY)
  IN  [unifiedData |->
         Flatten([i \in 1..Len(groups) |->
                    [j \in 1..Len(groups[i].metrics) |->
                       [groups[i].metrics[j] EXCEPT
                          !.groupOffset = <<groupX(i - 1), groupY(i - 1)>>,
                          !.groupArea = <<z.groupWidth, RSub(z.groupHeight, R(60))>>,
                          !.groupId = i - 1]]]),
       groupLabels |->
         [i \in 1..Len(groups) |->
            [groupValue |-> groups[i].groupValue,
             groupX |-> RAdd(groupX(i - 1), RDiv(z.groupWidth, R(2))),
             groupY |-> RAdd(groupY(i - 1), R(60)),
             metricsCount |-> Len(groups[i].metrics),
             groupId |-> i - 1]],
       finalZoom |-> finalZoom,
       cols |-> cg.cols, rows |-> cg.rows]

(* the layout of the groups on the grid cg at the given zoom *)
zonedGroups(groups, cg, finalZoom) ==
  placeGroups(groups, cg, groupZone(cg, finalZoom), finalZoom)

groupedClusterLayout(groups, containerSize) ==
  zonedGroups(groups, clusterGrid(Len(groups), containerSize),
              autoZoom(Len(groups), SumLen(groups)))

----------------------------------------------------------------------------
(* HexGrid: derived values (useMemo) of a render                           *)

hasGroupOffsets(data) == \E i \in 1..Len(data) : data[i].groupOffset # NoOffset

(* the hexagon size that fills a W x H container with cols columns *)
calculatedSize(count, W, H, cols) ==
  RDiv(RMin(RDiv(W, RAdd(R(cols), Frac(1, 2))),
            RDiv(H, RMul(R(RCeil(Frac(count, cols))), Frac(866, 1000)))),
       R(2))

(* hexSize = 'auto', the only size App passes *)
hexSizeValue(data, width, height) ==
  LET count == Len(data)
      checked(size) ==
        IF RLe(size, R(0)) THEN R(20)
        ELSE IF hasGroupOffsets(data) /\ RLt(R(100), size) THEN R(100)
        ELSE size
  IN  IF count = 0 THEN R(20)
      ELSE checked(calculatedSize(count, R(width), R(height),
                                  CeilSqrt(RMul(R(count),
                                                RDiv(R(width), R(height))))))

(* the limits once the minimum is safe: the maximum is at least twice it *)
safeLimits(safeMinZoom, maxZoom) ==
  LET safeMaxZoom == RMax(RMul(safeMinZoom, R(2)), RMin(maxZoom, R(50)))
  IN  [min |-> safeMinZoom, max |-> safeMaxZoom,
       initial |-> RMin(R(1), RMul(safeMaxZoom, Frac(3, 10)))]

zoomLimits(size, width, height) ==
  LET validWidth == R(width)
      validHeight == R(height)
      hexagonScreenSize == size
      minVisibleHexRadius == R(6)
      minZoom == RDiv(minVisibleHexRadius, hexagonScreenSize)
      maxHexRadiusScreen == RMul(RMin(validWidth, validHeight), Frac(4, 10))
      maxZoom == RDiv(maxHexRadiusScreen, hexagonScreenSize)
  IN  safeLimits(RMax(Frac(1, 100), RMin(minZoom, R(1))), maxZoom)

(* Math.max(lo, Math.min(hi, v)) *)
Clamp(v, lo, hi) == RMax(lo, RMin(hi, v))

maxDimension == 5000

(* hexCell with columns half a hexagon apart *)
hexCellHalfStep(sortedData, index, cols, spacing, rowOffset, start) ==
  LET col == index % cols
      row == index \div cols
  IN  [q |-> col, r |-> row,
       x |-> RAdd(RAdd(start[1], RMul(R(col), rowOffset)),
                  IF row % 2 = 1 THEN rowOffset ELSE R(0)),
       y |-> RAdd(start[2], RMul(R(row), spacing[2])),
       data |-> sortedData[index + 1]]

(* one hexagon of the honeycomb: column, row and center *)
hexCell(sortedData, index, cols, spacing, rowOffset, start) ==
  LET horizontalSpacing == spacing[1]
      verticalSpacing == spacing[2]
      startX == start[1]
      startY == start[2]
      col == index % cols
      row == index \div cols
      hexOffsetX == IF row % 2 = 1 THEN rowOffset ELSE R(0)
  IN  [q |-> col, r |-> row,
       x |-> RAdd(RAdd(startX, RMul(R(col), horizontalSpacing)), hexOffsetX),
       y |-> RAdd(startY, RMul(R(row), verticalSpacing)),
       data |-> sortedData[index + 1]]

(* the honeycomb of cols columns, centered in the container *)
hexCells(sortedData, validWidth, validHeight, cols, hexWidth, hexHeight) ==
  LET count == Len(sortedData)
      rows == RCeil(Frac(count, cols))
      horizontalSpacing == hexWidth
      verticalSpacing == RMul(hexHeight, Frac(75, 100))
      rowOffset == RDiv(hexWidth, R(2))
      inputFieldHeight == R(0)
      availableHeight == RSub(validHeight, inputFieldHeight)
      totalWidth == RAdd(RMul(R(cols - 1), horizontalSpacing), rowOffset)
      totalHeight == RMul(R(rows - 1), verticalSpacing)
  IN  [i \in 1..count |->
         hexCell(sortedData, i - 1, cols,
                 <<horizontalSpacing, verticalSpacing>>, rowOffset,
                 << RDiv(RSub(validWidth, totalWidth), R(2)),
                    RAdd(inputFieldHeight,
                         RDiv(RSub(availableHeight, totalHeight), R(2))) >>)]

calculateHexCoords(sortedData, containerWidth, containerHeight, size) ==
  LET validWidth == IF RLt(R(0), containerWidth) THEN containerWidth ELSE R(800)
      validHeight == IF RLt(R(0), containerHeight) THEN containerHeight ELSE R(600)
  IN  IF RLt(R(maxDimension), validWidth) \/ RLt(R(maxDimension), validHeight)
      THEN <<>>
      ELSE hexCells(sortedData, validWidth, validHeight,
                    CeilSqrt(RMul(R(Len(sortedData)),
                                  RDiv(validWidth, validHeight))),
                    RMul(size, Sqrt3), RMul(size, R(2)))

(* the distinct groupOffset keys of the data, in insertion order (Map) *)
RECURSIVE OffsetKeys(_, _)
OffsetKeys(data, seen) ==
  IF data = <<>> THEN seen
  ELSE IF \E i \in 1..Len(seen) : seen[i] = data[1].groupOffset
       THEN OffsetKeys(Tail(data), seen)
       ELSE OffsetKeys(Tail(data), Append(seen, data[1].groupOffset))

Xs(coords) == [i \in 1..Len(coords) |-> coords[i].x]

Ys(coords) == [i \in 1..Len(coords) |-> coords[i].y]

(* the coordinates of one group, group offset applied *)
groupCoords(items, size) ==
  LET sortedItems == SortDesc(items)
      shifted(local) ==
        [i \in 1..Len(local) |->
           [local[i] EXCEPT !.x = RAdd(@, items[1].groupOffset[1]),
                            !.y = RAdd(@, items[1].groupOffset[2])]]
  IN  shifted(calculateHexCoords(sortedItems, items[1].groupArea[1],
                                 items[1].groupArea[2], size))

(* the center a group's header is anchored to *)
groupCenter(g, size) ==
  [groupId |-> g.items[1].groupId,
   realCenterX |-> RDiv(RAdd(RMinSeq(Xs(g.coords)), RMaxSeq(Xs(g.coords))), R(2)),
   realCenterY |-> RSub(RMinSeq(Ys(g.coords)), size)]

(* all coordinates, and the centers of the groups that have an id *)
collectGroups(groups, size) ==
  LET withCenter == SelectSeq(groups, LAMBDA g : Len(g.coords) > 0
                                                 /\ g.items[1].groupId # NoGroupId)
  IN  [coords |-> Flatten([k \in 1..Len(groups) |-> groups[k].coords]),
       groupCenters |-> [j \in 1..Len(withCenter) |->
                           groupCenter(withCenter[j], size)]]

(* the hexCoords memo: coordinates and the group centers it stores *)
hexCoords(processedData, width, height, size) ==
  IF Len(processedData) = 0 THEN [coords |-> <<>>, groupCenters |-> <<>>]
  ELSE IF hasGroupOffsets(processedData) THEN
    LET keys == OffsetKeys(processedData, <<>>)
        itemsOf(k) == SelectSeq(processedData, LAMBDA m : m.groupOffset = keys[k])
    IN  collectGroups([k \in 1..Len(keys) |->
                         [items |-> itemsOf(k),
                          coords |-> groupCoords(itemsOf(k), size)]],
                      size)
  ELSE [coords |-> calculateHexCoords(SortDesc(processedData), R(width),
                                      R(height), size),
        groupCenters |-> <<>>]

(* sorted unique group ids of the coordinates: '' is the empty set *)
groupSignature(data) ==
  IF hasGroupOffsets(data)
  THEN {data[i].groupId : i \in 1..Len(data)} \ {NoGroupId}
  ELSE {}

----------------------------------------------------------------------------
(* HexGrid: the viewport operations, as functions of the render's values   *)

zoomSpeed == Frac(3, 10)

(* the zoom of handleZoom without the cap of 6 *)
zoomAfterWheelNoCap(zoom, limits, delta) ==
  Clamp(RAdd(zoom, RMul(R(delta), zoomSpeed)), limits.min, limits.max)

(* the zoom handleZoom stores: clamp to the limits, then the cap of 6 *)
zoomAfterWheel(zoom, limits, delta) ==
  LET newZoom == RAdd(zoom, RMul(R(delta), zoomSpeed))
      clampedZoom == Clamp(newZoom, limits.min, limits.max)
  IN  IF RLt(R(6), clampedZoom) THEN R(6) ELSE clampedZoom

(* handleZoom without the pan correction *)
handleZoomKeepsPan(zoom, pan, limits, delta, mouse) ==
  [zoom |-> zoomAfterWheel(zoom, limits, delta), pan |-> pan]

(* handleZoom(delta, event): the new zoom and pan, mouse = <<mouseX, mouseY>> *)
handleZoom(zoom, pan, limits, delta, mouse) ==
  LET currentZoom == zoom
      currentPan == pan
      worldX == RDiv(RSub(R(mouse[1]), currentPan[1]), currentZoom)
      worldY == RDiv(RSub(R(mouse[2]), currentPan[2]), currentZoom)
      (* a zero zoom makes world and newPan non-finite: pan is kept *)
      zoomed(clampedZoom) ==
        [zoom |-> clampedZoom,
         pan |-> IF currentZoom[1] = 0 THEN currentPan
                 ELSE <<RSub(R(mouse[1]), RMul(worldX, clampedZoom)),
                        RSub(R(mouse[2]), RMul(worldY, clampedZoom))>>]
  IN  zoomed(zoomAfterWheel(currentZoom, limits, delta))

(* handleZoom(delta) without an event: the fallback branch keeps the pan *)
handleZoomNoEvent(zoom, pan, limits, delta) ==
  [zoom |-> zoomAfterWheel(zoom, limits, delta), pan |-> pan]

(* the bounds of all hexagons *)
gridBounds(coords, size) ==
  [minX |-> RSub(RMinSeq(Xs(coords)), size), maxX |-> RAdd(RMaxSeq(Xs(coords)), size),
   minY |-> RSub(RMinSeq(Ys(coords)), size), maxY |-> RAdd(RMaxSeq(Ys(coords)), size)]

(* the pan that centers the bounds b at zoom clampedZoom *)
recenterTarget(b, size, W, H, isGroupedMode, gridWidth, gridHeight, clampedZoom) ==
  LET totalReservedHeight == R(60 + 30 + 20 + 40)
      availableWidth == W
      availableHeight == RSub(H, totalReservedHeight)
      hasSpaceX == RLt(RMul(gridWidth, clampedZoom), availableWidth)
      hasSpaceY == RLt(RMul(gridHeight, clampedZoom), availableHeight)
      gridCenterX == RDiv(RAdd(b.minX, b.maxX), R(2))
      gridCenterY == RDiv(RAdd(b.minY, b.maxY), R(2))
      marginX == RMul(size, R(2))
      marginY == RAdd(totalReservedHeight, size)
      groupedCenterY == RAdd(totalReservedHeight, RDiv(availableHeight, R(2)))
  IN  [zoom |-> clampedZoom,
       pan |-> << IF isGroupedMode /\ ~hasSpaceX
                  THEN RSub(marginX, RMul(b.minX, clampedZoom))
                  ELSE RSub(RDiv(W, R(2)), RMul(gridCenterX, clampedZoom)),
                  IF isGroupedMode
                  THEN IF hasSpaceY
                       THEN RSub(groupedCenterY, RMul(gridCenterY, clampedZoom))
                       ELSE RSub(marginY, RMul(b.minY, clampedZoom))
                  ELSE RSub(RDiv(H, R(2)), RMul(gridCenterY, clampedZoom)) >>]

(* the fit without margins: the bounds fill the container *)
recenterFitNoMargin(b, size, W, H, isGroupedMode, limits) ==
  LET gridWidth == RSub(b.maxX, b.minX)
      gridHeight == RSub(b.maxY, b.minY)
  IN  recenterTarget(b, size, W, H, isGroupedMode, gridWidth, gridHeight,
                     Clamp(RMin(RDiv(W, gridWidth), RDiv(H, gridHeight)),
                           limits.min, limits.max))

(* the zoom that shows the bounds b with margins, and the pan for it *)
recenterFit(b, size, W, H, isGroupedMode, limits) ==
  LET gridWidth == RSub(b.maxX, b.minX)
      gridHeight == RSub(b.maxY, b.minY)
      horizontalMargin == IF isGroupedMode THEN Frac(2, 10) ELSE Frac(1, 10)
      reservedRatio == RDiv(R(80 + 40 + 40 + 80), H)
      verticalMargin == IF isGroupedMode THEN RMax(Frac(1, 10), reservedRatio)
                        ELSE Frac(1, 10)
      zoomX == RDiv(RMul(W, RSub(R(1), horizontalMargin)), gridWidth)
      zoomY == RDiv(RMul(H, RSub(R(1), verticalMargin)), gridHeight)
  IN  recenterTarget(b, size, W, H, isGroupedMode, gridWidth, gridHeight,
                     Clamp(RMin(zoomX, zoomY), limits.min, limits.max))

(* recenterGrid: the zoom and pan it stores and emits *)
recenterGrid(coords, size, width, height, limits) ==
  IF Len(coords) = 0
  THEN [zoom |-> limits.initial, pan |-> <<R(0), R(0)>>]
  ELSE recenterFit(gridBounds(coords, size), size, R(width), R(height),
                   \E i \in 1..Len(coords) : coords[i].data.groupOffset # NoOffset,
                   limits)

(* virtualization applies above this number of hexagons *)
virtualizationThreshold == 1000

(* the visibleHexCoords memo with a padding of half a cell radius *)
visibleHexCoordsHalfPadding(coords, pan, zoom, width, height, size) ==
  LET viewportLeft == RDiv(RNeg(pan[1]), zoom)
      viewportRight == RDiv(RAdd(RNeg(pan[1]), R(width)), zoom)
      viewportTop == RDiv(RNeg(pan[2]), zoom)
      viewportBottom == RDiv(RAdd(RNeg(pan[2]), R(height)), zoom)
      padding == RDiv(size, R(2))
  IN  IF Len(coords) <= virtualizationThreshold THEN coords
      ELSE SelectSeq(coords, LAMBDA coord :
             /\ RLe(viewportLeft, RAdd(coord.x, padding))
             /\ RLe(RSub(coord.x, padding), viewportRight)
             /\ RLe(viewportTop, RAdd(coord.y, padding))
             /\ RLe(RSub(coord.y, padding), viewportBottom))

(* the visibleHexCoords memo without the padding around the viewport *)
visibleHexCoordsNoPadding(coords, pan, zoom, width, height, size) ==
  IF Len(coords) <= virtualizationThreshold THEN coords
  ELSE SelectSeq(coords, LAMBDA coord :
         /\ RLe(RDiv(RNeg(pan[1]), zoom), coord.x)
         /\ RLe(coord.x, RDiv(RAdd(RNeg(pan[1]), R(width)), zoom))
         /\ RLe(RDiv(RNeg(pan[2]), zoom), coord.y)
         /\ RLe(coord.y, RDiv(RAdd(RNeg(pan[2]), R(height)), zoom)))

(* the visibleHexCoords memo: the hexagons drawn for a transform *)
visibleHexCoords(coords, pan, zoom, width, height, size) ==
  LET viewportLeft == RDiv(RNeg(pan[1]), zoom)
      viewportRight == RDiv(RAdd(RNeg(pan[1]), R(width)), zoom)
      viewportTop == RDiv(RNeg(pan[2]), zoom)
      viewportBottom == RDiv(RAdd(RNeg(pan[2]), R(height)), zoom)
      padding == RMul(size, R(2))
  IN  IF Len(coords) <= virtualizationThreshold THEN coords
      ELSE SelectSeq(coords, LAMBDA coord :
             /\ RLe(viewportLeft, RAdd(coord.x, padding))
             /\ RLe(RSub(coord.x, padding), viewportRight)
             /\ RLe(viewportTop, RAdd(coord.y, padding))
             /\ RLe(RSub(coord.y, padding), viewportBottom))

----------------------------------------------------------------------------
(* State                                                                   *)

VARIABLES
  rawData,        \* App: the query result (usePrometheus data)
  isLoading,      \* App: a query is in flight
  containerSize,  \* App: <<width, height>>
  groupByState,   \* App: GroupByState
  grid,           \* the mounted HexGrid's state (useState / useRef)
  hdr,            \* the mounted FloatingGroupHeaders' state
  timers,         \* pending setTimeout callbacks, in scheduling order
  emitted,        \* detail of the last 'hexgrid-transform' window event
  budget,         \* number of user inputs still to be explored
  call,           \* the arguments of a function applied on its own
  ret,            \* what that function has returned so far
  textMeasureCache  \* the text width cache: [key, width] in insertion order

vars == <<rawData, isLoading, containerSize, groupByState, grid, hdr, timers,
          emitted, budget, call, ret, textMeasureCache>>

(* the state of the running application *)
appVars == <<rawData, isLoading, containerSize, groupByState, grid, hdr, timers,
             emitted, budget>>

(* no function is applied on its own *)
NoCall == [fn |-> "none"]


(* bounds of the exploration: user inputs per behaviour *)
MaxOps == 3

MousePoints == {<<0, 0>>, <<600, 300>>}

(* wheel zooms are explored from viewports whose zoom and pan are fractions *)
(* with denominators up to MaxDen, so that exact results stay in range     *)
MaxDen == 1000

Small(q) == q[2] <= MaxDen

ZeroPan == <<R(0), R(0)>>

(* HexGrid before its first render: useState / useRef initial values; the *)
(* memoized values and the props its effects depend on are filled in by   *)
(* the render                                                             *)
NoGrid ==
  [mounted |-> FALSE, zoom |-> R(1), pan |-> ZeroPan, isDragging |-> FALSE,
   dragStart |-> ZeroPan, pendingGroupCenters |-> <<>>,
   isRecentering |-> FALSE, prevGroupSignatureRef |-> {},
   width |-> 0, height |-> 0, initialZoom |-> R(1),
   hexSizeValue |-> R(20), zoomLimits |-> zoomLimits(R(20), 0, 0),
   hexCoords |-> <<>>, dragListeners |-> [mousemove |-> 0, mouseup |-> 0]]

NoHdr ==
  [mounted |-> FALSE, currentTransform |-> [zoom |-> R(1), pan |-> ZeroPan],
   realGroupCenters |-> <<>>, hexSize |-> R(25),
   hasReceivedTransform |-> FALSE, hasReceivedGroupCenters |-> FALSE,
   isRecentering |-> FALSE, prevGroupSignatureRef |-> {},
   groupLabels |-> <<>>]

NoEvent == [zoom |-> R(0), pan |-> ZeroPan, isRecentering |-> FALSE, any |-> FALSE]

----------------------------------------------------------------------------
(* What App renders for a given App state                                  *)

(* groupedClusterLayout is non-null: the grouped branch of the JSX *)
IsGroupedMode(data, gbs) == gbs.isActive /\ ~groupedDataIsNull(dataToShow(data), gbs)

(* a HexGrid is rendered at all *)
ShowsGrid(data, loading) == ~loading /\ Len(dataToShow(data)) > 0

Layout(data, gbs, size) ==
  groupedClusterLayout(groupedData(dataToShow(data), gbs), size)

(* the props App passes to HexGrid, and the groupLabels prop of the headers *)
GridProps(data, gbs, size) ==
  LET grouped(layout) ==
        [data |-> layout.unifiedData, width |-> size[1], height |-> size[2],
         initialZoom |-> layout.finalZoom, groupLabels |-> layout.groupLabels]
  IN  IF IsGroupedMode(data, gbs)
      THEN grouped(Layout(data, gbs, size))
      ELSE [data |-> dataToShow(data), width |-> size[1], height |-> size[2],
            initialZoom |-> R(1), groupLabels |-> <<>>]

(* the memoized values of a HexGrid render whose hexSizeValue is size *)
RenderSized(props, size) ==
  [hexSizeValue |-> size,
   zoomLimits |-> zoomLimits(size, props.width, props.height),
   hc |-> hexCoords(props.data, props.width, props.height, size)]

(* the memoized values of a HexGrid render with the given props *)
RenderOf(props) ==
  RenderSized(props, hexSizeValue(props.data, props.width, props.height))

----------------------------------------------------------------------------
(* Window events and timers.  A "world" w is the record of the variables   *)
(* a handler can change: [grid, hdr, timers, emitted].                     *)

World == [grid |-> grid, hdr |-> hdr, timers |-> timers, emitted |-> emitted]

(* FloatingGroupHeaders.handleTransformUpdate, run by dispatchEvent *)
handleTransformUpdate(h, z, p, rec) ==
  [h EXCEPT !.currentTransform = [zoom |-> z, pan |-> p],
            !.isRecentering = rec,
            !.hasReceivedTransform = TRUE]

(* FloatingGroupHeaders.handleGroupCenters, run by dispatchEvent *)
handleGroupCenters(h, centers, size) ==
  [h EXCEPT !.realGroupCenters = centers,
            !.hexSize = IF size[1] # 0 THEN size ELSE @,
            !.hasReceivedGroupCenters = TRUE]

(* window.dispatchEvent(new CustomEvent('hexgrid-transform', ...)) *)
DispatchTransform(w, z, p, rec) ==
  [w EXCEPT !.emitted = [zoom |-> z, pan |-> p, isRecentering |-> rec, any |-> TRUE],
            !.hdr = IF w.hdr.mounted THEN handleTransformUpdate(@, z, p, rec) ELSE @]

(* emitTransformUpdate of a render whose isRecentering state is rec *)
emitTransformUpdate(w, z, p, rec) == DispatchTransform(w, z, p, rec)

(* emitGroupCenters of a render whose hexSizeValue is size *)
emitGroupCenters(w, centers, size) ==
  [w EXCEPT !.hdr = IF w.hdr.mounted THEN handleGroupCenters(@, centers, size) ELSE @]

(* setTimeout delays, in units of 10 ms *)
TransformDelay == 6

CentersDelay == 10

PendingCentersDelay == 15

SafetyDelay == 30

Timer(kind, rem, z, p, centers, size) ==
  [kind |-> kind, rem |-> rem, zoom |-> z, pan |-> p, centers |-> centers,
   hexSize |-> size]

SetTimeout(w, t) == [w EXCEPT !.timers = Append(@, t)]

(* clearTimeout of the pending-centers effect's timer *)
ClearPendingCentersTimer(w) ==
  [w EXCEPT !.timers = SelectSeq(@, LAMBDA t : t.kind # "pendingCenters")]

(* the timers that still act once the HexGrid that set them is unmounted: *)
(* the two dispatching timers of recenterGrid                              *)
AfterUnmount(ts) ==
  SelectSeq(ts, LAMBDA t : t.kind \in {"transform", "centers"})

----------------------------------------------------------------------------
(* HexGrid: render and effects                                             *)

(* the render with memoized values rv, and the hexCoords memo's state updates *)
hexCoordsMemo(g, props, rv) ==
  LET signature == groupSignature(props.data)
      isNewGrouping == signature # g.prevGroupSignatureRef /\ signature # {}
      g1 == [g EXCEPT !.width = props.width, !.height = props.height,
                      !.initialZoom = props.initialZoom,
                      !.hexSizeValue = rv.hexSizeValue,
                      !.zoomLimits = rv.zoomLimits,
                      !.hexCoords = rv.hc.coords]
  IN  IF Len(props.data) = 0 THEN g1
      ELSE [g1 EXCEPT
              !.isRecentering = IF hasGroupOffsets(props.data) /\ isNewGrouping
                                THEN TRUE ELSE @,
              !.pendingGroupCenters = rv.hc.groupCenters]

(* recenterGrid as called from a render with state rec, pending centers pc *)
RecenterGrid(w, rec, pc) ==
  LET g == w.grid
      moved(t) ==
        emitTransformUpdate([w EXCEPT !.grid.pan = t.pan, !.grid.zoom = t.zoom],
                            t.zoom, t.pan, rec)
      scheduled(t, w2) ==
        IF Len(g.hexCoords) = 0
        THEN [w2 EXCEPT !.grid.isRecentering = FALSE]
        ELSE SetTimeout(
               SetTimeout(w2, Timer("centers", CentersDelay, R(0), ZeroPan, pc,
                                    g.hexSizeValue)),
               Timer("transform", TransformDelay, t.zoom, t.pan, <<>>, R(0)))
      recentered(t) == scheduled(t, moved(t))
  IN  recentered(recenterGrid(g.hexCoords, g.hexSizeValue, g.width, g.height,
                              g.zoomLimits))

(* effect: emit the initial transform (mount only, not in grouped mode) *)
InitialEmitEffect(w, props, g) ==
  IF ~hasGroupOffsets(props.data)
  THEN emitTransformUpdate(w, g.zoom, g.pan, g.isRecentering)
  ELSE w

(* effect [initialZoom, zoomLimits]; g is the state of the render *)
InitialZoomEffect(w, props, g) ==
  LET clampedZoom == Clamp(props.initialZoom, g.zoomLimits.min, g.zoomLimits.max)
  IN  IF RLt(Frac(1, 100), RAbs(RSub(clampedZoom, g.zoom)))
      THEN emitTransformUpdate([w EXCEPT !.grid.zoom = clampedZoom],
                               clampedZoom, g.pan, g.isRecentering)
      ELSE w

(* effect [pendingGroupCenters, emitGroupCenters] with its cleanup *)
PendingCentersEffect(w, props, g) ==
  IF Len(g.pendingGroupCenters) > 0
  THEN SetTimeout(ClearPendingCentersTimer(w),
                  Timer("pendingCenters", PendingCentersDelay, R(0), ZeroPan,
                        g.pendingGroupCenters, g.hexSizeValue))
  ELSE ClearPendingCentersTimer(w)

(* the auto-recenter effect without its safety timeout *)
AutoRecenterEffectNoTimeout(w, props, g) ==
  LET signature == groupSignature(props.data)
  IN  IF Len(g.hexCoords) = 0 THEN w
      ELSE [(IF signature # g.prevGroupSignatureRef /\ signature # {}
             THEN RecenterGrid([w EXCEPT !.grid.isRecentering = TRUE],
                               g.isRecentering, g.pendingGroupCenters)
             ELSE w)
            EXCEPT !.grid.prevGroupSignatureRef = signature]

(* effect [hexCoords, recenterGrid]: auto-recenter on a new signature *)
AutoRecenterEffect(w, props, g) ==
  LET signature == groupSignature(props.data)
  IN  IF Len(g.hexCoords) = 0 THEN w
      ELSE [(IF signature # g.prevGroupSignatureRef /\ signature # {}
             THEN SetTimeout(
                    RecenterGrid([w EXCEPT !.grid.isRecentering = TRUE],
                                 g.isRecentering, g.pendingGroupCenters),
                    Timer("safety", SafetyDelay, R(0), ZeroPan, <<>>, R(0)))
             ELSE w)
            EXCEPT !.grid.prevGroupSignatureRef = signature]

(* the state of a new HexGrid before its first render *)
FirstRender(props) == [NoGrid EXCEPT !.mounted = TRUE, !.zoom = props.initialZoom]

(* the effects that run after a render from state old to state g; the     *)
(* initial-emit effect runs on mount only, the initialZoom effect when its *)
(* dependencies changed                                                    *)
RunEffects(w, props, old, g, isMount) ==
  LET w0 == [w EXCEPT !.grid = g]
      limitsChanged == old.hexSizeValue # g.hexSizeValue \/ old.width # g.width
                       \/ old.height # g.height
      w1 == IF isMount THEN InitialEmitEffect(w0, props, g) ELSE w0
      w2 == IF isMount \/ old.initialZoom # g.initialZoom \/ limitsChanged
            THEN InitialZoomEffect(w1, props, g) ELSE w1
  IN  AutoRecenterEffect(PendingCentersEffect(w2, props, g), props, g)

(* a render of HexGrid with the given props from state old, and its effects *)
RenderGrid(w, props, old, isMount) ==
  RunEffects(w, props, old, hexCoordsMemo(old, props, RenderOf(props)), isMount)

(* unmount: effect cleanups; state updates of its timers become no-ops *)
UnmountGrid(w) == [w EXCEPT !.grid = NoGrid, !.timers = AfterUnmount(@)]

----------------------------------------------------------------------------
(* FloatingGroupHeaders: mount, re-render and render guard                 *)

(* groupLabels.map(label => label.groupId).sort().join('-') *)
labelsSignature(labels) == {labels[i].groupId : i \in 1..Len(labels)}

MountHeaders(w, labels) ==
  [w EXCEPT !.hdr = [NoHdr EXCEPT !.mounted = TRUE,
                                  !.groupLabels = labels,
                                  !.prevGroupSignatureRef = labelsSignature(labels)]]

(* effect [groupSignature]: forget the received data on a new signature *)
UpdateHeaders(w, labels) ==
  LET sig == labelsSignature(labels)
      reset == w.hdr.prevGroupSignatureRef # {} /\ sig # w.hdr.prevGroupSignatureRef
  IN  [w EXCEPT !.hdr.groupLabels = labels,
                !.hdr.hasReceivedTransform = IF reset THEN FALSE ELSE @,
                !.hdr.hasReceivedGroupCenters = IF reset THEN FALSE ELSE @,
                !.hdr.prevGroupSignatureRef = sig]

isInitialized(h) == h.hasReceivedTransform /\ h.hasReceivedGroupCenters

(* the component returns header elements (not null) *)
RendersHeaders(h) ==
  /\ h.mounted
  /\ Len(h.groupLabels) > 0
  /\ ~((~isInitialized(h) /\ Len(h.groupLabels) > 0) \/ h.isRecentering)

(* screen position of a header, as FloatingGroupHeaders computes it *)
headerPosition(h, label) ==
  LET z == h.currentTransform.zoom
      p == h.currentTransform.pan
      found == SelectSeq(h.realGroupCenters, LAMBDA c : c.groupId = label.groupId)
      baseSafetyMargin == R(40)
      zoomAdjustedMargin ==
        RAdd(baseSafetyMargin,
             RMul(RMul(baseSafetyMargin,
                       RSub(RDiv(R(1), RMax(z, Frac(1, 10))), R(1))),
                  Frac(5, 10)))
      placed(margin) ==
        IF Len(found) > 0
        THEN [x |-> RAdd(RMul(found[1].realCenterX, z), p[1]),
              y |-> RSub(RAdd(RMul(found[1].realCenterY, z), p[2]),
                         RMul(margin, z)),
              hasRealCenter |-> TRUE]
        ELSE [x |-> RAdd(RMul(label.groupX, z), p[1]),
              y |-> RSub(RAdd(RMul(label.groupY, z), p[2]),
                         RMul(RAdd(h.hexSize, margin), z)),
              hasRealCenter |-> FALSE]
  IN  placed(zoomAdjustedMargin)

(* the header of a label is drawn inside the container *)
isVisible(h, label, size) ==
  LET inside(pos) ==
        /\ RLt(R(-100), pos.x) /\ RLt(pos.x, R(size[1] + 100))
        /\ RLt(R(-50), pos.y) /\ RLt(pos.y, R(size[2] + 50))
  IN  inside(headerPosition(h, label))

----------------------------------------------------------------------------
(* App re-render: what a change of App state does to the component tree    *)

(* the headers overlay: rendered in the grouped branch only *)
RenderHeaders(w, wasGrouped, nowGrouped, labels) ==
  IF ~nowGrouped THEN [w EXCEPT !.hdr = NoHdr]
  ELSE IF wasGrouped THEN UpdateHeaders(w, labels)
  ELSE MountHeaders(w, labels)

(* the branch App renders: the headers overlay, and the HexGrid mounted, *)
(* re-rendered on new props, or kept                                     *)
RenderBranch(w, props, wasGrouped, nowGrouped, hasGrid, keepsGrid, propsChanged) ==
  LET w2 == RenderHeaders(w, wasGrouped, nowGrouped, props.groupLabels)
  IN  IF hasGrid /\ (~keepsGrid \/ propsChanged)
      THEN RenderGrid(w2, props, IF keepsGrid THEN w2.grid ELSE FirstRender(props),
                      ~keepsGrid)
      ELSE w2

Commit(w, oldData, oldLoading, oldSize, oldGbs, newData, newLoading, newSize, newGbs) ==
  LET hadGrid == ShowsGrid(oldData, oldLoading)
      hasGrid == ShowsGrid(newData, newLoading)
      wasGrouped == hadGrid /\ IsGroupedMode(oldData, oldGbs)
      nowGrouped == hasGrid /\ IsGroupedMode(newData, newGbs)
      keepsGrid == hadGrid /\ hasGrid /\ wasGrouped = nowGrouped
      propsChanged == nowGrouped \/ newData # oldData \/ newSize # oldSize
  IN  RenderBranch(IF hadGrid /\ ~keepsGrid THEN UnmountGrid(w) ELSE w,
                   GridProps(newData, newGbs, newSize),
                   wasGrouped, nowGrouped, hasGrid, keepsGrid, propsChanged)

(* the window listeners the mouse events effect adds for a drag *)
DragListeners(isDragging) ==
  IF isDragging THEN [mousemove |-> 1, mouseup |-> 1]
  ELSE [mousemove |-> 0, mouseup |-> 0]

(* the mouse events effect without isDragging among its dependencies *)
MouseEventsEffectNoDraggingDep(old, g) ==
  IF ~g.mounted THEN [g EXCEPT !.dragListeners = DragListeners(FALSE)]
  ELSE IF \/ ~old.mounted
          \/ <<old.zoom, old.pan, old.zoomLimits, Len(old.hexCoords),
               old.isRecentering, old.dragStart>>
             # <<g.zoom, g.pan, g.zoomLimits, Len(g.hexCoords), g.isRecentering,
                 g.dragStart>>
  THEN [g EXCEPT !.dragListeners = DragListeners(g.isDragging)]
  ELSE g

(* the mouse events effect after a render from state old to state g: when *)
(* a dependency changed its cleanup removes the listeners of the previous  *)
(* run and mousemove and mouseup are added if isDragging; the cleanup runs *)
(* on unmount                                                              *)
MouseEventsEffect(old, g) ==
  IF ~g.mounted THEN [g EXCEPT !.dragListeners = DragListeners(FALSE)]
  ELSE IF \/ ~old.mounted
          \/ <<old.zoom, old.pan, old.zoomLimits, Len(old.hexCoords),
               old.isRecentering, old.isDragging, old.dragStart>>
             # <<g.zoom, g.pan, g.zoomLimits, Len(g.hexCoords), g.isRecentering,
                 g.isDragging, g.dragStart>>
  THEN [g EXCEPT !.dragListeners = DragListeners(g.isDragging)]
  ELSE g

(* an App state update followed by the re-render it causes *)
(* the world after the step is w *)
WorldBecomes(w) ==
  /\ grid' = MouseEventsEffect(grid, w.grid)
  /\ hdr' = w.hdr
  /\ timers' = w.timers
  /\ emitted' = w.emitted
  /\ UNCHANGED <<call, ret, textMeasureCache>>

SetAppState(newData, newLoading, newSize, newGbs) ==
  /\ rawData' = newData
  /\ isLoading' = newLoading
  /\ containerSize' = newSize
  /\ groupByState' = newGbs
  /\ WorldBecomes(Commit(World, rawData, isLoading, containerSize, groupByState,
                         newData, newLoading, newSize, newGbs))

(* a HexGrid handler or a timer: only the world changes *)
SetWorld(w) ==
  /\ WorldBecomes(w)
  /\ UNCHANGED <<rawData, isLoading, containerSize, groupByState>>

----------------------------------------------------------------------------
(* App actions                                                             *)

(* one user input is spent *)
Spend == budget > 0 /\ budget' = budget - 1

(* executeQuery with a new query: the spinner replaces the grid and the *)
(* grouping is reset until the fetch resolves                             *)
executeQuery ==
  /\ ~isLoading
  /\ SetAppState(<<>>, TRUE, containerSize, InitialGroupByState)
  /\ UNCHANGED budget

(* the fetch resolves with a result *)
queryResolved(data) ==
  /\ isLoading
  /\ SetAppState(data, FALSE, containerSize, groupByState)
  /\ UNCHANGED budget

(* the debounced resize handler *)
handleResize(size) ==
  /\ size # containerSize
  /\ Spend
  /\ SetAppState(rawData, isLoading, size, groupByState)

(* LabelSelector is shown with the labels of the data *)
handleLabelClick(labelKey) ==
  /\ Len(dataToShow(rawData)) > 0
  /\ \/ groupByState.isActive /\ groupByState.groupKey # labelKey
     \/ ~groupByState.isActive
  /\ Spend
  /\ SetAppState(rawData, isLoading, containerSize,
       IF groupByState.isActive
       THEN [groupByState EXCEPT !.groupKey = labelKey,
                                 !.selectedGroupValue = Undef,
                                 !.previousGroupKey = Undef]
       ELSE [InitialGroupByState EXCEPT !.isActive = TRUE, !.groupKey = labelKey])

handleResetGroupBy ==
  /\ groupByState.isActive
  /\ Spend
  /\ SetAppState(rawData, isLoading, containerSize, InitialGroupByState)

(* handleGroupClick whose deselection leaves the filter stack as it is *)
groupClickKeepsStack(prev, groupValue) ==
  IF prev.selectedGroupValue = groupValue
  THEN [prev EXCEPT
          !.selectedGroupValue = Undef,
          !.previousGroupKey = prev.groupKey,
          !.currentLevel = IF prev.currentLevel - 1 > 0 THEN prev.currentLevel - 1 ELSE 0]
  ELSE [prev EXCEPT
          !.selectedGroupValue = groupValue,
          !.previousGroupKey = prev.groupKey,
          !.filterStack = Append(@, [labelKey |-> prev.groupKey,
                                     labelValue |-> groupValue,
                                     level |-> prev.currentLevel]),
          !.currentLevel = prev.currentLevel + 1]

(* new GroupByState of handleGroupClick(groupValue) *)
groupClick(prev, groupValue) ==
  IF prev.selectedGroupValue = groupValue
  THEN [prev EXCEPT
          !.selectedGroupValue = Undef,
          !.previousGroupKey = prev.groupKey,
          !.filterStack = SubSeq(@, 1, Len(@) - 1),
          !.currentLevel = IF prev.currentLevel - 1 > 0 THEN prev.currentLevel - 1 ELSE 0]
  ELSE [prev EXCEPT
          !.selectedGroupValue = groupValue,
          !.previousGroupKey = prev.groupKey,
          !.filterStack = Append(@, [labelKey |-> prev.groupKey,
                                     labelValue |-> groupValue,
                                     level |-> prev.currentLevel]),
          !.currentLevel = prev.currentLevel + 1]

(* handleRemoveFilter without the currentLevel update *)
removeFilterKeepsLevel(prev, index) ==
  [prev EXCEPT !.filterStack = SubSeq(@, 1, index),
               !.selectedGroupValue = Undef]

(* new GroupByState of handleRemoveFilter(index), index from 0 *)
removeFilter(prev, index) ==
  [prev EXCEPT !.filterStack = SubSeq(@, 1, index),
               !.currentLevel = index,
               !.selectedGroupValue = Undef]

(* the headers a user can click *)
ClickableHeaders ==
  IF RendersHeaders(hdr)
  THEN {i \in 1..Len(hdr.groupLabels) : isVisible(hdr, hdr.groupLabels[i], containerSize)}
  ELSE {}

handleGroupClick(i) ==
  /\ i \in ClickableHeaders
  /\ Spend
  /\ SetAppState(rawData, isLoading, containerSize,
                 groupClick(groupByState, hdr.groupLabels[i].groupValue))

(* FilterStack draws one remove button per entry *)
handleRemoveFilter(index) ==
  /\ index \in 0..(Len(groupByState.filterStack) - 1)
  /\ Spend
  /\ SetAppState(rawData, isLoading, containerSize, removeFilter(groupByState, index))

----------------------------------------------------------------------------
(* HexGrid actions                                                         *)

(* handleWheel: deltaY > 0 ? -1 : 1, then handleZoom at the mouse position *)
handleWheel(delta, mouse) ==
  /\ grid.mounted
  /\ Small(grid.zoom) /\ Small(grid.pan[1]) /\ Small(grid.pan[2])
  /\ Spend
  /\ LET zoomed(t) ==
           emitTransformUpdate([World EXCEPT !.grid.zoom = t.zoom, !.grid.pan = t.pan],
                               t.zoom, t.pan, grid.isRecentering)
     IN  SetWorld(zoomed(handleZoom(grid.zoom, grid.pan, grid.zoomLimits, delta,
                                    mouse)))

(* mouse down on the svg; pan is never NaN here, so the reset branch is dead *)
handlePanStart(mouse) ==
  /\ grid.mounted
  /\ ~grid.isDragging
  /\ Spend
  /\ SetWorld([World EXCEPT
                 !.grid.isDragging = TRUE,
                 !.grid.dragStart = <<RSub(R(mouse[1]), grid.pan[1]),
                                      RSub(R(mouse[2]), grid.pan[2])>>])

(* the new pan of a pointer move during a drag *)
dragPan(dragStart, mouse) ==
  <<RSub(R(mouse[1]), dragStart[1]), RSub(R(mouse[2]), dragStart[2])>>

(* window mousemove while dragging *)
handleGlobalMouseMove(mouse) ==
  /\ grid.mounted
  /\ grid.isDragging
  /\ Spend
  /\ LET moved(newPan) ==
           emitTransformUpdate([World EXCEPT !.grid.pan = newPan],
                               grid.zoom, newPan, grid.isRecentering)
     IN  SetWorld(moved(dragPan(grid.dragStart, mouse)))

(* window mouseup while dragging *)
handleGlobalMouseUp ==
  /\ grid.mounted
  /\ grid.isDragging
  /\ SetWorld([World EXCEPT !.grid.isDragging = FALSE])
  /\ UNCHANGED budget

handleDoubleClick ==
  /\ grid.mounted
  /\ Spend
  /\ SetWorld(RecenterGrid(World, grid.isRecentering, grid.pendingGroupCenters))

----------------------------------------------------------------------------
(* Timers                                                                  *)

(* index of the timer that is due first *)
DueTimer == CHOOSE i \in 1..Len(timers) :
              timers[i].rem = 0 /\ \A j \in 1..(i - 1) : timers[j].rem # 0

RemoveAt(s, i) == SubSeq(s, 1, i - 1) \o SubSeq(s, i + 1, Len(s))

(* the callback of a timer *)
RunTimer(w, t) ==
  IF t.kind = "transform" THEN DispatchTransform(w, t.zoom, t.pan, FALSE)
  ELSE IF t.kind = "centers"
       THEN IF Len(t.centers) > 0 THEN emitGroupCenters(w, t.centers, t.hexSize) ELSE w
  ELSE IF t.kind = "pendingCenters" THEN emitGroupCenters(w, t.centers, t.hexSize)
  ELSE [w EXCEPT !.grid.isRecentering = FALSE]

(* a due timer fires *)
Fire ==
  /\ \E i \in 1..Len(timers) : timers[i].rem = 0
  /\ SetWorld(RunTimer([World EXCEPT !.timers = RemoveAt(@, DueTimer)],
                       timers[DueTimer]))
  /\ UNCHANGED budget

(* the time to the next deadline *)
RECURSIVE MinRem(_)
MinRem(ts) ==
  IF Len(ts) = 1 THEN ts[1].rem
  ELSE LET m == MinRem(Tail(ts)) IN IF ts[1].rem < m THEN ts[1].rem ELSE m

(* time passes until the next timer is due *)
Tick ==
  /\ Len(timers) > 0
  /\ \A i \in 1..Len(timers) : timers[i].rem > 0
  /\ timers' = [i \in 1..Len(timers) |-> [timers[i] EXCEPT !.rem = @ - MinRem(timers)]]
  /\ UNCHANGED <<rawData, isLoading, containerSize, groupByState, grid, hdr,
                 emitted, budget, call, ret, textMeasureCache>>

----------------------------------------------------------------------------
(* Specification                                                           *)

InitWith(n) ==
  /\ rawData = <<>>
  /\ isLoading = FALSE
  /\ containerSize \in ContainerSizes
  /\ groupByState = InitialGroupByState
  /\ grid = NoGrid
  /\ hdr = NoHdr
  /\ timers = <<>>
  /\ emitted = NoEvent
  /\ budget = n
  /\ call = NoCall
  /\ ret = NoCall
  /\ textMeasureCache = <<>>

Init == InitWith(MaxOps)

Next ==
  \/ executeQuery
  \/ \E data \in DataSets : queryResolved(data)
  \/ \E size \in ContainerSizes : handleResize(size)
  \/ \E labelKey \in LabelKeys : handleLabelClick(labelKey)
  \/ handleResetGroupBy
  \/ \E i \in 1..4 : handleGroupClick(i)
  \/ \E index \in 0..3 : handleRemoveFilter(index)
  \/ \E delta \in {-1, 1}, mouse \in MousePoints : handleWheel(delta, mouse)
  \/ \E mouse \in MousePoints : handlePanStart(mouse)
  \/ \E mouse \in MousePoints : handleGlobalMouseMove(mouse)
  \/ handleGlobalMouseUp
  \/ handleDoubleClick
  \/ Fire
  \/ Tick

Spec == Init /\ [][Next]_vars

----------------------------------------------------------------------------
(* Properties of the viewport and of the header overlay                    *)

(* C1: in every reachable state of a mounted HexGrid the zoom lies within *)
(* the zoom limits derived from the current cell radius and container.    *)
C1_ZoomWithinLimits ==
  grid.mounted =>
    /\ RLe(grid.zoomLimits.min, grid.zoom)
    /\ RLe(grid.zoom, grid.zoomLimits.max)

(* the group anchors HexGrid computes for the current grouping in a *)
(* container of the given size                                       *)
AnchorsOf(size) == RenderOf(GridProps(rawData, groupByState, size)).hc.groupCenters

(* C3: when group headers are rendered, the anchors they are positioned *)
(* from are anchors computed for the current grouping, never those of a *)
(* previous grouping.                                                    *)
C3_HeadersUseCurrentAnchors ==
  RendersHeaders(hdr) =>
    \E size \in ContainerSizes : hdr.realGroupCenters = AnchorsOf(size)

(* C4: while HexGrid.isRecentering is true, FloatingGroupHeaders renders *)
(* no header.                                                            *)
C4_HeadersSuppressedWhileRecentering ==
  grid.isRecentering => ~RendersHeaders(hdr)

(* a recenter started by a new grouping signature is in flight: its own *)
(* safety timeout is still pending                                       *)
RecenterInFlight == \E i \in 1..Len(timers) : timers[i].kind = "safety"

(* C6: while a recenter triggered by a new grouping signature is in     *)
(* flight, isRecentering stays true: the timeout of an earlier grouping *)
(* change does not clear the flag of a later recenter.                   *)
C6_FlagHeldWhileInFlight == RecenterInFlight => grid.isRecentering

(* C7: the most recently emitted transform notification carries the *)
(* current zoom and pan of the mounted HexGrid.                       *)
C7_LastEmissionIsCurrent ==
  grid.mounted =>
    /\ emitted.any
    /\ emitted.zoom = grid.zoom
    /\ emitted.pan = grid.pan

(* the grouping key and the set of bucket values shown by the headers *)
GroupsOf(key, labels) ==
  <<key, {labels[i].groupValue : i \in 1..Len(labels)}>>

SafetyTimers(ts) == Len(SelectSeq(ts, LAMBDA t : t.kind = "safety"))

(* C8: whenever re-clustering produces a different grouping key or a   *)
(* different set of bucket values, with at least one cell, the grouping *)
(* signature changes and a fit-to-content recenter is triggered.        *)
C8_NewGroupsTriggerRecenter ==
  [][(/\ hdr.mounted /\ hdr'.mounted
      /\ grid.mounted /\ Len(grid'.hexCoords) > 0
      /\ GroupsOf(groupByState.groupKey, hdr.groupLabels)
           # GroupsOf(groupByState'.groupKey, hdr'.groupLabels))
     => /\ grid'.prevGroupSignatureRef # grid.prevGroupSignatureRef
        /\ SafetyTimers(timers') > SafetyTimers(timers)]_vars

(* C10: from every reachable viewport state, zoomAt with delta = 0 at any *)
(* anchor point leaves zoom and pan unchanged.                            *)
C10_ZeroDeltaIsIdentity ==
  (grid.mounted /\ Small(grid.zoom) /\ Small(grid.pan[1]) /\ Small(grid.pan[2])) =>
    \A mouse \in MousePoints :
      handleZoom(grid.zoom, grid.pan, grid.zoomLimits, 0, mouse)
        = [zoom |-> grid.zoom, pan |-> grid.pan]

----------------------------------------------------------------------------
(* The viewport alone: a query result shown in normal mode and the mouse   *)
(* operations on it                                                        *)

MaxViewOps == 3

InitViewport == InitWith(MaxViewOps)

NextViewport ==
  \/ executeQuery
  \/ \E data \in DataSets : queryResolved(data)
  \/ \E delta \in {-1, 1}, mouse \in MousePoints : handleWheel(delta, mouse)
  \/ \E mouse \in MousePoints : handlePanStart(mouse)
  \/ \E mouse \in MousePoints : handleGlobalMouseMove(mouse)
  \/ handleGlobalMouseUp
  \/ handleDoubleClick
  \/ Fire
  \/ Tick

SpecViewport == InitViewport /\ [][NextViewport]_vars

(* the logical point under the screen point before the step is under it *)
(* after the step                                                        *)
AnchoredAt(mouse) ==
  LET logicalX == RDiv(RSub(R(mouse[1]), grid.pan[1]), grid.zoom)
      logicalY == RDiv(RSub(R(mouse[2]), grid.pan[2]), grid.zoom)
  IN  /\ RAdd(RMul(logicalX, grid'.zoom), grid'.pan[1]) = R(mouse[1])
      /\ RAdd(RMul(logicalY, grid'.zoom), grid'.pan[2]) = R(mouse[2])

(* C2: mouse-anchored zoom: after a wheel zoom at screen point p, the    *)
(* logical point (p - pan)/zoom that was under p before the call is still *)
(* under p: logical * zoom' + pan' = p.                                   *)
C2_MouseAnchoredZoom ==
  [][\A delta \in {-1, 1}, mouse \in MousePoints :
       handleWheel(delta, mouse) => AnchoredAt(mouse)]_vars

(* a wheel zoom in at (600, 300) from the initial viewport has acted *)
C2_Witness ==
  /\ grid.mounted
  /\ grid.zoom = Frac(13, 10)
  /\ grid.pan = <<R(-180), R(-90)>>

----------------------------------------------------------------------------
(* Grouping in depth: the App operations on the grouping state, each made  *)
(* once the timers of the previous one have run                            *)

MaxGroupOps == 5

(* a grouping input is explored when at most MaxPending timers are pending *)
MaxPending == 0

Settled == Len(timers) <= MaxPending

InitGrouping == InitWith(MaxGroupOps)

NextGrouping ==
  \/ Settled /\ executeQuery
  \/ \E data \in DataSets : queryResolved(data)
  \/ \E labelKey \in LabelKeys : Settled /\ handleLabelClick(labelKey)
  \/ Settled /\ handleResetGroupBy
  \/ \E i \in 1..4 : Settled /\ handleGroupClick(i)
  \/ \E index \in 0..3 : Settled /\ handleRemoveFilter(index)
  \/ Fire
  \/ Tick

SpecGrouping == InitGrouping /\ [][NextGrouping]_vars

(* C9: every filterStack entry at index i has level i (from 0), and *)
(* currentLevel equals the stack length.                              *)
C9_FilterStackLevels ==
  /\ \A i \in 1..Len(groupByState.filterStack) :
       groupByState.filterStack[i].level = i - 1
  /\ groupByState.currentLevel = Len(groupByState.filterStack)

(* a second-level filter was appended under key a and taken off again *)
C9_Witness ==
  /\ Len(groupByState.filterStack) = 1
  /\ groupByState.filterStack[1].labelKey = "b"
  /\ groupByState.groupKey = "a"
  /\ groupByState.previousGroupKey = "a"
  /\ groupByState.selectedGroupValue = Undef

----------------------------------------------------------------------------
(* Grouping changes at any moment, with the timers running: every timer    *)
(* that is due fires, and time passes while none is due                    *)

MaxRecenterOps == 2

InitRecenter == InitWith(MaxRecenterOps)

NextRecenter ==
  \/ executeQuery
  \/ \E data \in DataSets : queryResolved(data)
  \/ \E labelKey \in LabelKeys : handleLabelClick(labelKey)
  \/ handleResetGroupBy
  \/ \E i \in 1..4 : handleGroupClick(i)
  \/ Fire
  \/ Tick

SpecRecenter ==
  InitRecenter /\ [][NextRecenter]_vars /\ WF_vars(Fire) /\ WF_vars(Tick)

(* C5: whenever isRecentering becomes true it eventually becomes false *)
(* again, with no further user input: the safety timeout clears it.     *)
C5_FlagEventuallyCleared == grid.isRecentering ~> ~grid.isRecentering

(* the flag is set and the safety timeout of the recenter is pending *)
C5_Witness == grid.mounted /\ grid.isRecentering /\ RecenterInFlight

----------------------------------------------------------------------------
(* Functions applied on their own.  The application is idle; call holds    *)
(* the arguments and ret the results computed from them so far.            *)

Idle ==
  /\ textMeasureCache = <<>>
  /\ rawData = <<>>
  /\ isLoading = FALSE
  /\ containerSize = <<1200, 900>>
  /\ groupByState = InitialGroupByState
  /\ grid = NoGrid
  /\ hdr = NoHdr
  /\ timers = <<>>
  /\ emitted = NoEvent
  /\ budget = 0

(* the function returns v *)
Returns(v) == ret' = v /\ UNCHANGED <<call, appVars, textMeasureCache>>

----------------------------------------------------------------------------
(* Zoom bounds and zoom steps: zoomLimits of a cell radius and a container, *)
(* then handleZoom from a zoom with these limits                            *)

(* cell radii: hexSize small, medium and large, and sizes of 'auto' *)
CellRadii == {R(3), R(15), R(25), R(35), R(200)}

ZoomContainers == {<<40, 40>>, <<1000, 498>>, <<1200, 900>>, <<5000, 5000>>}

(* the zooms a step starts from are the halves up to MaxZoomHalves / 2 *)
MaxZoomHalves == 14

(* the wheel passes -1 or 1; handleZoom takes any delta *)
MaxDelta == 2

InitZoom ==
  /\ Idle
  /\ call \in [fn : {"zoomAt"}, size : CellRadii, container : ZoomContainers,
               zoom : {Frac(k, 2) : k \in 1..MaxZoomHalves}]
  /\ ret = [stage |-> "called"]

(* the zoomLimits memo of a render *)
ZoomLimitsCall ==
  /\ ret.stage = "called"
  /\ Returns([stage |-> "limits",
              limits |-> zoomLimits(call.size, call.container[1], call.container[2])])

(* handleZoom(delta, event) at the mouse position, from a zero pan *)
ZoomAtCall(delta, mouse) ==
  /\ ret.stage = "limits"
  /\ Returns([stage |-> "zoomed", limits |-> ret.limits, delta |-> delta,
              event |-> TRUE,
              to |-> handleZoom(call.zoom, ZeroPan, ret.limits, delta, mouse)])

(* handleZoom(delta) without an event *)
ZoomNoEventCall(delta) ==
  /\ ret.stage = "limits"
  /\ Returns([stage |-> "zoomed", limits |-> ret.limits, delta |-> delta,
              event |-> FALSE,
              to |-> handleZoomNoEvent(call.zoom, ZeroPan, ret.limits, delta)])

NextZoom ==
  \/ ZoomLimitsCall
  \/ \E delta \in (-MaxDelta)..MaxDelta, mouse \in MousePoints : ZoomAtCall(delta, mouse)
  \/ \E delta \in (-MaxDelta)..MaxDelta : ZoomNoEventCall(delta)

SpecZoom == InitZoom /\ [][NextZoom]_vars

(* C11: for every positive cell radius and every valid container size the *)
(* computed zoom bounds satisfy min <= initial <= max and max >= 2 * min.  *)
C11_ZoomBoundsOrdered ==
  ret.stage = "limits" =>
    /\ RLe(ret.limits.min, ret.limits.initial)
    /\ RLe(ret.limits.initial, ret.limits.max)
    /\ RLe(RMul(R(2), ret.limits.min), ret.limits.max)

(* v limited to the interval from lo to hi *)
Within(v, lo, hi) == IF RLt(v, lo) THEN lo ELSE IF RLt(hi, v) THEN hi ELSE v

(* C12: the new zoom is min(6, clamp(zoom + 0.3 * delta, min, max)) for  *)
(* every zoom, delta and bounds; the cap of 6 applies when max is larger. *)
C12_ZoomStepClampedAndCapped ==
  ret.stage = "zoomed" =>
    ret.to.zoom = RMin(R(6), Within(RAdd(call.zoom, RMul(Frac(3, 10), R(ret.delta))),
                                    ret.limits.min, ret.limits.max))

(* a step up from 6 under limits that allow 50 is capped at 6 *)
C12_Witness ==
  /\ ret.stage = "zoomed"
  /\ call.zoom = R(6)
  /\ ret.delta = 1
  /\ ret.limits.max = R(50)
  /\ ret.to.zoom = R(6)

----------------------------------------------------------------------------
(* The honeycomb layout: calculateHexCoords of a list of items in a         *)
(* rectangle, and the hexCoords memo of a render in normal mode             *)

MaxItems == 4

Names == <<"m1", "m2", "m3", "m4", "m5", "m6">>

(* the items of a list of values, named by their input position *)
ItemsOf(values) ==
  [i \in 1..Len(values) |-> MetricPoint(Names[i], values[i], "x", "p")]

ItemLists ==
  UNION {{ItemsOf(values) : values \in [1..n -> {10, 50}]} : n \in 1..MaxItems}

(* rectangle sides: degenerate, valid, and beyond maxDimension *)
Widths == {-100, 0, 300, 800, 5000, 5001}

Heights == {0, 600, 5001}

LayoutContainers == {<<300, 600>>, <<800, 600>>, <<5000, 200>>}

InitLayout ==
  /\ Idle
  /\ \/ call \in [fn : {"calculateHexCoords"}, items : ItemLists, width : Widths,
                   height : Heights, size : CellRadii]
     \/ \E c \in LayoutContainers :
          call \in [fn : {"hexCoords"}, items : ItemLists, width : {c[1]},
                    height : {c[2]}, size : {R(0)}]
  /\ ret = [done |-> FALSE]

(* calculateHexCoords(sortedData, containerWidth, containerHeight, size) *)
LayoutCall ==
  /\ call.fn = "calculateHexCoords"
  /\ ~ret.done
  /\ Returns([done |-> TRUE,
              cells |-> calculateHexCoords(call.items, R(call.width),
                                           R(call.height), call.size)])

(* the hexCoords memo of a HexGrid render with these props *)
HexCoordsCall ==
  /\ call.fn = "hexCoords"
  /\ ~ret.done
  /\ Returns([done |-> TRUE,
              cells |-> RenderOf([data |-> call.items, width |-> call.width,
                                  height |-> call.height]).hc.coords])

NextLayout == LayoutCall \/ HexCoordsCall

SpecLayout == InitLayout /\ [][NextLayout]_vars

(* the rectangle of the call is valid: both sides in (0, maxDimension] *)
ValidRect ==
  /\ 0 < call.width /\ call.width <= maxDimension
  /\ 0 < call.height /\ call.height <= maxDimension

LaidOut == call.fn = "calculateHexCoords" /\ ret.done

IsFinite(q) == q[2] > 0

(* C13: for a non-degenerate input the layout returns exactly len(items)  *)
(* cells with finite x, y; no two cells share (column, row); centres of    *)
(* column-adjacent cells of a row are at least cellRadius * sqrt(3) apart  *)
(* and centres of adjacent rows at least 1.5 * cellRadius apart vertically *)
C13_HoneycombSpacing ==
  (LaidOut /\ ValidRect) =>
    /\ Len(ret.cells) = Len(call.items)
    /\ \A i \in 1..Len(ret.cells) : IsFinite(ret.cells[i].x) /\ IsFinite(ret.cells[i].y)
    /\ \A i, j \in 1..Len(ret.cells) :
         i # j =>
           /\ <<ret.cells[i].q, ret.cells[i].r>> # <<ret.cells[j].q, ret.cells[j].r>>
           /\ (ret.cells[i].r = ret.cells[j].r /\ ret.cells[i].q + 1 = ret.cells[j].q)
                => RLe(RMul(call.size, Sqrt3),
                       RAbs(RSub(ret.cells[i].x, ret.cells[j].x)))
           /\ ret.cells[i].r + 1 = ret.cells[j].r
                => RLe(RMul(call.size, Frac(3, 2)),
                       RSub(ret.cells[j].y, ret.cells[i].y))

(* four items laid out in two rows of three columns *)
C13_Witness ==
  /\ LaidOut /\ ValidRect
  /\ Len(ret.cells) = 4
  /\ ret.cells[3].q = 2 /\ ret.cells[3].r = 0
  /\ ret.cells[4].q = 0 /\ ret.cells[4].r = 1

(* C14: the layout returns an empty list whenever the rectangle is         *)
(* degenerate: a side <= 0, or larger than the sanity maximum.             *)
C14_DegenerateRectIsEmpty ==
  (LaidOut /\ ~ValidRect) => ret.cells = <<>>

(* C15: the bounding box of the cell centres produced is centred in the    *)
(* rectangle on both axes, for every item count >= 1 and valid rectangle.  *)
C15_BlockCentred ==
  (LaidOut /\ ValidRect /\ Len(ret.cells) >= 1) =>
    /\ RDiv(RAdd(RMinSeq(Xs(ret.cells)), RMaxSeq(Xs(ret.cells))), R(2))
         = Frac(call.width, 2)
    /\ RDiv(RAdd(RMinSeq(Ys(ret.cells)), RMaxSeq(Ys(ret.cells))), R(2))
         = Frac(call.height, 2)

(* the input position of the item of a cell *)
InputIndex(cell) ==
  CHOOSE k \in 1..Len(call.items) : call.items[k].name = cell.data.name

(* C16: cells are placed in descending order of value in row-major order:  *)
(* the item at sorted position i gets column i mod cols and row            *)
(* floor(i / cols), values are non-increasing along that order and items   *)
(* of equal value keep their input order.                                  *)
C16_SortedRowMajor ==
  (call.fn = "hexCoords" /\ ret.done) =>
    /\ Len(ret.cells) = Len(call.items)
    /\ \E cols \in 1..(Len(call.items) * 5) :
         \A i \in 1..Len(ret.cells) :
           /\ ret.cells[i].q = (i - 1) % cols
           /\ ret.cells[i].r = (i - 1) \div cols
    /\ \A i, j \in 1..Len(ret.cells) :
         i < j =>
           /\ ret.cells[i].data.value >= ret.cells[j].data.value
           /\ InputIndex(ret.cells[i]) # InputIndex(ret.cells[j])
           /\ ret.cells[i].data.value = ret.cells[j].data.value
                => InputIndex(ret.cells[i]) < InputIndex(ret.cells[j])

(* 10, 50, 10, 50 in a 300 x 600 container: two rows of two, the two 50s  *)
(* first and each tie in input order                                       *)
C16_Witness ==
  /\ call.fn = "hexCoords" /\ ret.done
  /\ Len(ret.cells) = 4
  /\ [i \in 1..4 |-> ret.cells[i].data.name] = <<"m2", "m4", "m1", "m3">>
  /\ ret.cells[3].q = 0 /\ ret.cells[3].r = 1

----------------------------------------------------------------------------
(* Virtualization: the visibleHexCoords memo for the honeycomb of a result *)
(* of up to 1000 metrics, or of 1000 metrics and the summary hexagons      *)

(* the honeycombs explored have up to this many hexagons above the threshold *)
MaxExtraCells == 2

CellCounts == {3, virtualizationThreshold}
                \cup {virtualizationThreshold + k : k \in 1..MaxExtraCells}

(* the honeycomb of n metrics of radius 16 in a 1200 x 900 container *)
Honeycomb(n) ==
  calculateHexCoords([i \in 1..n |-> [name |-> i, value |-> n - i]],
                     R(1200), R(900), R(16))

Pans == {<<0, 0>>, <<-600, -300>>, <<400, 300>>, <<-1200, 0>>, <<0, -1000>>,
         <<2000, 2000>>}

Zooms == {Frac(1, 2), R(1), R(2)}

InitCull ==
  /\ Idle
  /\ call \in [fn : {"visibleHexCoords"}, cells : {Honeycomb(n) : n \in CellCounts},
               pan : Pans, zoom : Zooms]
  /\ ret = [done |-> FALSE]

(* the visibleHexCoords memo of a render *)
VisibleHexCoordsCall ==
  /\ ~ret.done
  /\ Returns([done |-> TRUE,
              cells |-> visibleHexCoords(call.cells, <<R(call.pan[1]), R(call.pan[2])>>,
                                         call.zoom, 1200, 900, R(16))])

NextCull == VisibleHexCoordsCall

SpecCull == InitCull /\ [][NextCull]_vars

(* the centre of the cell lies in the visible logical rectangle           *)
(* [-pan/zoom, (-pan + rect)/zoom] expanded by 2 * cellRadius on each side *)
InExpandedView(cell) ==
  /\ RLe(RSub(RDiv(R(-call.pan[1]), call.zoom), R(32)), cell.x)
  /\ RLe(cell.x, RAdd(RDiv(R(1200 - call.pan[1]), call.zoom), R(32)))
  /\ RLe(RSub(RDiv(R(-call.pan[2]), call.zoom), R(32)), cell.y)
  /\ RLe(cell.y, RAdd(RDiv(R(900 - call.pan[2]), call.zoom), R(32)))

(* C17: the virtualization filter returns a sub-list of its input in the  *)
(* same order: the input itself up to 1000 cells, and above 1000 exactly   *)
(* the cells whose centre lies in the expanded visible rectangle.          *)
C17_CullIsOrderedSubset ==
  ret.done =>
    IF Len(call.cells) <= 1000
    THEN ret.cells = call.cells
    ELSE ret.cells = SelectSeq(call.cells, InExpandedView)

(* 1001 cells of which some, not all, are in view *)
C17_Witness ==
  /\ ret.done
  /\ Len(call.cells) = 1001
  /\ 0 < Len(ret.cells) /\ Len(ret.cells) < 1001

----------------------------------------------------------------------------
(* Clustering: groupedData of a query result and a grouping state, then    *)
(* groupedClusterLayout of the groups, then the render of the HexGrid that *)
(* receives the unified data                                               *)

(* a result in which one series lacks the label b *)
DataMissing ==
  << MetricPoint("m1", 10, "x", "p"),
     [MetricPoint("m2", 50, "y", Undef) EXCEPT !.labels = [a |-> "y"]],
     MetricPoint("m3", 90, "x", "q") >>

(* a result with five values of the label a *)
DataSpread ==
  << MetricPoint("m1", 10, "u", "p"), MetricPoint("m2", 50, "v", "p"),
     MetricPoint("m3", 90, "w", "q"), MetricPoint("m4", 50, "x", "q"),
     MetricPoint("m5", 20, "y", "p") >>

ClusterData == {DataFour, DataOne, DataMissing, DataSpread}

ClusterContainers == ContainerSizes \cup {<<400, 120>>}

LabelValues == {"x", "y", "p", "q", "u"}

(* grouping states: none, grouped by a key, a group header selected, and *)
(* another key chosen under that filter                                   *)
GroupingStates ==
  LET byKey(k) == [InitialGroupByState EXCEPT !.isActive = TRUE, !.groupKey = k]
      selected(k, v) == groupClick(byKey(k), v)
  IN  {InitialGroupByState}
        \cup {byKey(k) : k \in LabelKeys}
        \cup {selected(k, v) : k \in LabelKeys, v \in LabelValues}
        \cup {[selected(t[1], t[2]) EXCEPT !.groupKey = t[3],
                                           !.selectedGroupValue = Undef,
                                           !.previousGroupKey = Undef] :
                t \in {u \in LabelKeys \X LabelValues \X LabelKeys : u[1] # u[3]}}

InitCluster ==
  /\ Idle
  /\ call \in [fn : {"groupedData"}, data : ClusterData, gbs : GroupingStates,
               container : ClusterContainers]
  /\ ret = [stage |-> "called"]

(* the groupedData memo; null is the empty record *)
GroupedDataCall ==
  /\ ret.stage = "called"
  /\ Returns(IF groupedDataIsNull(dataToShow(call.data), call.gbs)
             THEN [stage |-> "null"]
             ELSE [stage |-> "grouped",
                   groups |-> groupedData(dataToShow(call.data), call.gbs)])

(* the groupedClusterLayout memo of the groups *)
ClusterLayoutCall ==
  /\ ret.stage = "grouped"
  /\ Returns([stage |-> "placed", groups |-> ret.groups,
              layout |-> groupedClusterLayout(ret.groups, call.container)])

(* the values of the HexGrid render that receives the unified data *)
ClusterRender(layout) ==
  RenderOf([data |-> layout.unifiedData, width |-> call.container[1],
            height |-> call.container[2]])

HexGridCall ==
  /\ ret.stage = "placed"
  /\ Len(ret.layout.unifiedData) > 0
  /\ Returns([stage |-> "rendered", groups |-> ret.groups, layout |-> ret.layout,
              render |-> ClusterRender(ret.layout)])

NextCluster == GroupedDataCall \/ ClusterLayoutCall \/ HexGridCall

SpecCluster == InitCluster /\ [][NextCluster]_vars

(* the items that satisfy every filter of the filter stack *)
Kept ==
  SelectSeq(dataToShow(call.data), LAMBDA m :
    \A i \in 1..Len(call.gbs.filterStack) :
      LabelOf(m, call.gbs.filterStack[i].labelKey) = call.gbs.filterStack[i].labelValue)

(* the position in Kept of the first item with the key value v *)
FirstSeen(v) ==
  CHOOSE i \in 1..Len(Kept) :
    /\ LabelOf(Kept[i], call.gbs.groupKey) = v
    /\ \A j \in 1..(i - 1) : LabelOf(Kept[j], call.gbs.groupKey) # v

(* C18: clustering keeps exactly the items that satisfy every filter of    *)
(* the stack and partitions them by the grouping key: every kept item is   *)
(* in exactly one bucket, each bucket holds only items with its key value, *)
(* and the buckets are ordered by first appearance of their key value.     *)
C18_BucketsPartitionKeptItems ==
  ret.stage = "grouped" =>
    /\ SumLen(ret.groups) = Len(Kept)
    /\ \A i \in 1..Len(Kept) :
         \E g \in 1..Len(ret.groups) :
           /\ \E j \in 1..Len(ret.groups[g].metrics) : ret.groups[g].metrics[j] = Kept[i]
           /\ \A h \in 1..Len(ret.groups) :
                (\E j \in 1..Len(ret.groups[h].metrics) : ret.groups[h].metrics[j] = Kept[i])
                  => h = g
    /\ \A g \in 1..Len(ret.groups) :
         \A j \in 1..Len(ret.groups[g].metrics) :
           LabelOf(ret.groups[g].metrics[j], call.gbs.groupKey) = ret.groups[g].groupValue
    /\ \A g, h \in 1..Len(ret.groups) :
         g < h => FirstSeen(ret.groups[g].groupValue) < FirstSeen(ret.groups[h].groupValue)

(* the region of bucket g (from 0): offset and area of its metrics *)
Region(g) ==
  LET first == SelectSeq(ret.layout.unifiedData, LAMBDA m : m.groupId = g)[1]
  IN  [left |-> first.groupOffset[1],
       right |-> RAdd(first.groupOffset[1], first.groupArea[1]),
       top |-> first.groupOffset[2],
       bottom |-> RAdd(first.groupOffset[2], first.groupArea[2])]

(* the tile of bucket g in the columns x rows tiling of the space below the *)
(* band of a third of the height, between the margins of 5% of the width    *)
Tile(g) ==
  LET W == R(call.container[1])
      H == R(call.container[2])
      tileWidth == RDiv(RDiv(RMul(W, Frac(9, 10)), ret.layout.finalZoom),
                        R(ret.layout.cols))
      tileHeight == RDiv(RDiv(RMul(H, Frac(2, 3)), ret.layout.finalZoom),
                         R(ret.layout.rows))
      col == g % ret.layout.cols
      row == g \div ret.layout.cols
  IN  [left |-> RAdd(RMul(W, Frac(1, 20)), RMul(R(col), tileWidth)),
       right |-> RAdd(RMul(W, Frac(1, 20)), RMul(R(col + 1), tileWidth)),
       top |-> RAdd(RDiv(H, R(3)), RMul(R(row), tileHeight)),
       bottom |-> RAdd(RDiv(H, R(3)), RMul(R(row + 1), tileHeight))]

Placed == ret.stage \in {"placed", "rendered"}

(* C19: the regions assigned to distinct buckets are pairwise              *)
(* non-overlapping rectangles, each inside its own tile of the columns x   *)
(* rows tiling below the reserved band.                                    *)
C19_RegionsDisjointInTiles ==
  Placed =>
    /\ \A g \in 0..(Len(ret.groups) - 1) :
         /\ g \div ret.layout.cols < ret.layout.rows
         /\ RLe(Tile(g).left, Region(g).left) /\ RLe(Region(g).right, Tile(g).right)
         /\ RLe(Tile(g).top, Region(g).top) /\ RLe(Region(g).bottom, Tile(g).bottom)
    /\ \A g, h \in 0..(Len(ret.groups) - 1) :
         g # h =>
           \/ RLe(Region(g).right, Region(h).left)
           \/ RLe(Region(h).right, Region(g).left)
           \/ RLe(Region(g).bottom, Region(h).top)
           \/ RLe(Region(h).bottom, Region(g).top)

(* five buckets placed in two rows of three columns *)
C19_Witness ==
  /\ Placed
  /\ Len(ret.groups) = 5
  /\ ret.layout.cols = 3 /\ ret.layout.rows = 2

(* C20: in clustered mode every cell of a bucket lies entirely within the  *)
(* bucket's region: its centre +/- cellRadius is inside [offset, offset +   *)
(* area] on both axes.                                                      *)
C20_CellsInsideRegion ==
  ret.stage = "rendered" =>
    \A i \in 1..Len(ret.render.hc.coords) :
      LET cell == ret.render.hc.coords[i]
          size == ret.render.hexSizeValue
          region == Region(cell.data.groupId)
      IN  /\ RLe(region.left, RSub(cell.x, size))
          /\ RLe(RAdd(cell.x, size), region.right)
          /\ RLe(region.top, RSub(cell.y, size))
          /\ RLe(RAdd(cell.y, size), region.bottom)

----------------------------------------------------------------------------
(* Presentation: the processedData memo of the HexGrid for a list of      *)
(* metrics, then the Hexagon drawn for each of them at a radius and a zoom *)

COLORS ==
  [CRITICAL |-> "#e63946", WARNING |-> "#f77f00", NORMAL |-> "#06d6a0",
   SUMMARY |-> "#6B7280"]

HEX_DISPLAY_THRESHOLDS == [BASIC |-> 25, DETAILED |-> 50, VERY_SMALL |-> 6]

(* a metric with its labels and its color, Undef when it carries none *)
ColoredMetric(n, v, labels, color) ==
  [name |-> n, value |-> v, labels |-> labels, color |-> color]

(* the truncation indicator of optimizeGridLayout, standing for n metrics *)
summaryMetric(n) ==
  ColoredMetric("others", n, [type |-> "summary"], COLORS.SUMMARY)

isSummary(item) == LabelOf(item, "type") = "summary"

(* every metric counted, the summary hexagon included *)
normalMetricsAll(data) == data

(* data.filter(item => item.labels?.type !== 'summary') *)
normalMetrics(data) == SelectSeq(data, LAMBDA item : ~isSummary(item))

ValuesOf(items) == [i \in 1..Len(items) |-> R(items[i].value)]

(* the threshold level of a value between minVal and maxVal *)
thresholdLevel(value, minVal, maxVal) ==
  LET range == RSub(maxVal, minVal)
      ratio == RDiv(RSub(R(value), minVal), range)
  IN  IF ~RLt(R(0), range) THEN "normal"
      ELSE IF RLe(Frac(66, 100), ratio) THEN "critical"
      ELSE IF RLe(Frac(33, 100), ratio) THEN "warning"
      ELSE "normal"

levelColor(level) ==
  CASE level = "critical" -> COLORS.CRITICAL
    [] level = "warning" -> COLORS.WARNING
    [] OTHER -> COLORS.NORMAL

(* one metric of processedData, the normal metrics ranging over values *)
processedItem(item, values) ==
  IF isSummary(item)
  THEN [name |-> item.name, value |-> item.value, labels |-> item.labels,
        thresholdLevel |-> "normal",
        color |-> IF item.color # Undef THEN item.color ELSE "#6B7280"]
  ELSE LET level == thresholdLevel(item.value, RMinSeq(values), RMaxSeq(values))
       IN  [name |-> item.name, value |-> item.value, labels |-> item.labels,
            thresholdLevel |-> level, color |-> levelColor(level)]

(* the processedData memo; data is returned as it is when it holds only *)
(* summary hexagons, which then have no thresholdLevel                  *)
processedData(data) ==
  IF Len(data) = 0 THEN <<>>
  ELSE IF Len(normalMetrics(data)) = 0
  THEN [i \in 1..Len(data) |->
          [name |-> data[i].name, value |-> data[i].value,
           labels |-> data[i].labels, thresholdLevel |-> Undef,
           color |-> data[i].color]]
  ELSE [i \in 1..Len(data) |->
          processedItem(data[i], ValuesOf(normalMetrics(data)))]

(* formatMetricValue: one decimal, in millions or thousands when large; *)
(* the value is a whole number, so value.toFixed(1) ends in .0          *)
formatMetricValue(value) ==
  IF value >= 1000000
  THEN [tenths |-> (value + 50000) \div 100000, unit |-> "M"]
  ELSE IF value >= 1000
  THEN [tenths |-> (value + 50) \div 100, unit |-> "K"]
  ELSE [tenths |-> value * 10, unit |-> ""]

(* label keys in the order of Array.prototype.sort *)
KeyOrder == <<"a", "b", "c", "d", "e", "type">>

(* Object.keys(labels).filter(key => key !== hiddenLabelKey).sort() *)
sortedKeys(labels, hiddenLabelKey) ==
  SelectSeq(KeyOrder, LAMBDA key : key \in DOMAIN labels /\ key # hiddenLabelKey)

(* labels[sortedKeys[k]], with the fallback of the || when it is empty *)
labelLine(labels, keys, k, fallback) ==
  IF k > Len(keys) THEN ""
  ELSE IF labels[keys[k]] # "" THEN labels[keys[k]] ELSE fallback

(* Hexagon displayInfo: the four label texts and the detail level *)
displayInfo(size, zoom, data, hiddenLabelKey) ==
  LET hexagonScreenSize == RMul(size, zoom)
      keys == sortedKeys(data.labels, hiddenLabelKey)
      detailLevel ==
        IF RLt(hexagonScreenSize, R(HEX_DISPLAY_THRESHOLDS.BASIC)) THEN "basic"
        ELSE IF RLt(hexagonScreenSize, R(HEX_DISPLAY_THRESHOLDS.DETAILED))
        THEN "detailed"
        ELSE "full"
      isVerySmall == RLt(hexagonScreenSize, R(HEX_DISPLAY_THRESHOLDS.VERY_SMALL))
  IN  IF isVerySmall
      THEN [detailLevel |-> detailLevel, primaryText |-> "", secondaryText |-> "",
            tertiaryText |-> "", quaternaryText |-> ""]
      ELSE [detailLevel |-> detailLevel,
            primaryText |->
              IF Len(keys) > 0 THEN labelLine(data.labels, keys, 1, data.name)
              ELSE data.name,
            secondaryText |->
              IF detailLevel # "basic" THEN labelLine(data.labels, keys, 2, "")
              ELSE "",
            tertiaryText |->
              IF detailLevel = "full" THEN labelLine(data.labels, keys, 3, "")
              ELSE "",
            quaternaryText |->
              IF detailLevel = "full" THEN labelLine(data.labels, keys, 4, "")
              ELSE ""]

(* (zoom - minZoom) / (maxZoom - minZoom), clamped to [0, 1] *)
zoomProgress(zoom, limits) ==
  Clamp(RDiv(RSub(zoom, limits.min), RSub(limits.max, limits.min)), R(0), R(1))

(* the text elements of the label lines the Hexagon renders *)
labelTexts(info, progress) ==
  (IF info.primaryText # "" THEN <<[kind |-> "label", text |-> info.primaryText]>>
   ELSE <<>>)
  \o (IF info.secondaryText # "" /\ info.detailLevel \in {"detailed", "full"}
      THEN <<[kind |-> "label", text |-> info.secondaryText]>> ELSE <<>>)
  \o (IF info.tertiaryText # "" /\ info.detailLevel = "full"
      THEN <<[kind |-> "label", text |-> info.tertiaryText]>> ELSE <<>>)
  \o (IF info.quaternaryText # "" /\ info.detailLevel = "full"
         /\ RLt(Frac(1, 2), progress)
      THEN <<[kind |-> "label", text |-> info.quaternaryText]>> ELSE <<>>)

(* the Hexagon of a metric: the fill of its polygon and its text elements, *)
(* the value first                                                        *)
Hexagon(size, data, zoom, hiddenLabelKey, limits) ==
  [fill |-> IF data.color # Undef THEN data.color ELSE "#3B82F6",
   texts |-> <<[kind |-> "value", text |-> formatMetricValue(data.value)]>>
             \o labelTexts(displayInfo(size, zoom, data, hiddenLabelKey),
                           zoomProgress(zoom, limits))]

(* the values of the metrics of a query result *)
ValueLists ==
  {<<>>, <<50>>, <<50, 50>>, <<90, 10>>, <<10, 50, 90>>, <<0, 33, 66, 100>>,
   <<0, 32, 65, 100>>, <<1500, 2000000>>}

(* the labels the metrics of a result carry *)
LabelSets ==
  {<<>>, [a |-> "x"], [a |-> "x", b |-> "p"], [a |-> "", b |-> "p"],
   [a |-> "x", b |-> "p", c |-> "u", d |-> "v"],
   [a |-> "x", b |-> "p", c |-> "u", d |-> "v", e |-> "w"]}

(* the metrics that carry an explicit color *)
ColoredSets == {{}, {1}, {2, 3}}

ExplicitColor == "#123456"

(* the number of metrics a summary hexagon stands for, 0 without one *)
SummaryCounts == {0, 1, 500}

DrawRadii == {R(3), R(25)}

DrawZooms == {Frac(6, 25), Frac(1, 2), R(1), R(2), R(8)}

(* the data prop: the metrics and, after them, the summary hexagon *)
DrawData(c) ==
  [i \in 1..Len(c.values) |->
     ColoredMetric(Names[i], c.values[i], c.labels,
                   IF i \in c.colored THEN ExplicitColor ELSE Undef)]
  \o (IF c.summary > 0 THEN <<summaryMetric(c.summary)>> ELSE <<>>)

DrawLimits(c) == zoomLimits(c.size, 1200, 900)

InitDraw ==
  /\ Idle
  /\ call \in {c \in [fn : {"draw"}, values : ValueLists, labels : LabelSets,
                      colored : ColoredSets, summary : SummaryCounts,
                      size : DrawRadii, zoom : DrawZooms,
                      hiddenLabelKey : {Undef, "a"}] :
                 /\ RLe(DrawLimits(c).min, c.zoom)
                 /\ RLe(c.zoom, DrawLimits(c).max)}
  /\ ret = [stage |-> "called"]

(* the processedData memo of a render *)
ProcessedDataCall ==
  /\ ret.stage = "called"
  /\ Returns([stage |-> "processed", data |-> processedData(DrawData(call))])

(* the Hexagon of every metric of processedData *)
HexagonCall ==
  /\ ret.stage = "processed"
  /\ Returns([stage |-> "drawn", data |-> ret.data,
              cells |-> [i \in 1..Len(ret.data) |->
                           Hexagon(call.size, ret.data[i], call.zoom,
                                   call.hiddenLabelKey, DrawLimits(call))]])

NextDraw == ProcessedDataCall \/ HexagonCall

SpecDraw == InitDraw /\ [][NextDraw]_vars

(* C21: a non-summary metric that carries an explicit color is drawn in   *)
(* that color, whatever its threshold ratio.                              *)
C21_ExplicitColorKept ==
  ret.stage = "drawn" =>
    \A i \in 1..Len(call.values) :
      i \in call.colored => ret.cells[i].fill = ExplicitColor

(* the values of the non-summary metrics, their least and their greatest *)
CallValues == {call.values[k] : k \in 1..Len(call.values)}

MinValue == CHOOSE v \in CallValues : \A w \in CallValues : v <= w

MaxValue == CHOOSE v \in CallValues : \A w \in CallValues : w <= v

(* C22: with min and max over the non-summary metrics, a metric is        *)
(* critical iff (value - min) / (max - min) >= 0.66, warning iff the ratio *)
(* is in [0.33, 0.66), normal otherwise, and all are normal when max =    *)
(* min; the summary hexagon has no part in min and max and keeps its      *)
(* neutral color.                                                         *)
C22_ThresholdClassification ==
  ret.stage \in {"processed", "drawn"} =>
    /\ \A i \in 1..Len(call.values) :
         LET part == (call.values[i] - MinValue) * 100
             whole == MaxValue - MinValue
             level == ret.data[i].thresholdLevel
         IN  IF whole = 0 THEN level = "normal"
             ELSE /\ level = "critical" <=> part >= 66 * whole
                  /\ level = "warning" <=> (part >= 33 * whole /\ part < 66 * whole)
                  /\ level = "normal" <=> part < 33 * whole
    /\ call.summary > 0 => ret.data[Len(ret.data)].color = COLORS.SUMMARY

(* 10, 50 and 90 next to a summary hexagon of 500: normal, warning, critical *)
C22_Witness ==
  /\ ret.stage = "processed"
  /\ call.values = <<10, 50, 90>>
  /\ call.summary = 500
  /\ ret.data[1].thresholdLevel = "normal"
  /\ ret.data[2].thresholdLevel = "warning"
  /\ ret.data[3].thresholdLevel = "critical"
  /\ ret.data[4].color = COLORS.SUMMARY

(* the on-screen radius of the cells drawn *)
ScreenRadius == RMul(call.size, call.zoom)

LabelCount(cell) == Len(SelectSeq(cell.texts, LAMBDA t : t.kind = "label"))

HasValue(cell) == \E k \in 1..Len(cell.texts) : cell.texts[k].kind = "value"

(* C23: below a radius of 6 a cell has no text at all; below 25 at most   *)
(* one label line; below 50 at most two; from 50 at most four label lines *)
(* and the formatted value, the fourth line only when the zoom is past    *)
(* the midpoint of the zoom range.                                        *)
C23_TextByScreenRadius ==
  ret.stage = "drawn" =>
    \A i \in 1..Len(ret.cells) :
      IF RLt(ScreenRadius, R(6)) THEN ret.cells[i].texts = <<>>
      ELSE IF RLt(ScreenRadius, R(25)) THEN LabelCount(ret.cells[i]) <= 1
      ELSE IF RLt(ScreenRadius, R(50)) THEN LabelCount(ret.cells[i]) <= 2
      ELSE /\ LabelCount(ret.cells[i]) <= 4
           /\ HasValue(ret.cells[i])
           /\ LabelCount(ret.cells[i]) = 4 =>
                RLt(RDiv(RAdd(DrawLimits(call).min, DrawLimits(call).max), R(2)),
                    call.zoom)

----------------------------------------------------------------------------
(* Fit to content: recenterGrid on the honeycomb of a HexGrid render       *)

FitContainers == {<<300, 600>>, <<800, 600>>, <<1200, 900>>, <<5000, 200>>}

InitFit ==
  /\ Idle
  /\ call \in [fn : {"recenterGrid"}, items : ItemLists, container : FitContainers]
  /\ ret = [stage |-> "called"]

(* the memos of the render: hexSizeValue, zoomLimits and hexCoords *)
FitRenderCall ==
  /\ ret.stage = "called"
  /\ LET rendered(rv) ==
           [stage |-> "rendered", hexSizeValue |-> rv.hexSizeValue,
            zoomLimits |-> rv.zoomLimits, hexCoords |-> rv.hc.coords]
     IN  Returns(rendered(RenderOf([data |-> call.items,
                                    width |-> call.container[1],
                                    height |-> call.container[2]])))

(* recenterGrid(): the zoom and pan it sets *)
RecenterGridCall ==
  /\ ret.stage = "rendered"
  /\ Returns([ret EXCEPT !.stage = "recentered"] @@
             [to |-> recenterGrid(ret.hexCoords, ret.hexSizeValue,
                                  call.container[1], call.container[2],
                                  ret.zoomLimits)])

NextFit == FitRenderCall \/ RecenterGridCall

SpecFit == InitFit /\ [][NextFit]_vars

(* the bounding box of the cell centres +/- the cell radius *)
BBox ==
  [left |-> RSub(RMinSeq(Xs(ret.hexCoords)), ret.hexSizeValue),
   right |-> RAdd(RMaxSeq(Xs(ret.hexCoords)), ret.hexSizeValue),
   top |-> RSub(RMinSeq(Ys(ret.hexCoords)), ret.hexSizeValue),
   bottom |-> RAdd(RMaxSeq(Ys(ret.hexCoords)), ret.hexSizeValue)]

(* the zoom at which the bounding box fills nine tenths of the tighter axis *)
FitZoom ==
  RMin(RDiv(RMul(Frac(9, 10), R(call.container[1])), RSub(BBox.right, BBox.left)),
       RDiv(RMul(Frac(9, 10), R(call.container[2])), RSub(BBox.bottom, BBox.top)))

(* C24: in normal mode the fit sets the zoom to clamp(min(0.9 * W / bboxW, *)
(* 0.9 * H / bboxH), min, max) for the bounding box of the cell centres    *)
(* +/- cellRadius, and the pan that maps the centre of the box to the      *)
(* centre (W / 2, H / 2) of the viewport.                                  *)
C24_FitCentresContent ==
  ret.stage = "recentered" /\ Len(ret.hexCoords) > 0 =>
    /\ ret.to.zoom = Within(FitZoom, ret.zoomLimits.min, ret.zoomLimits.max)
    /\ RAdd(RMul(RDiv(RAdd(BBox.left, BBox.right), R(2)), ret.to.zoom), ret.to.pan[1])
         = Frac(call.container[1], 2)
    /\ RAdd(RMul(RDiv(RAdd(BBox.top, BBox.bottom), R(2)), ret.to.zoom), ret.to.pan[2])
         = Frac(call.container[2], 2)

(* several cells fitted at a zoom strictly inside the bounds *)
C24_Witness ==
  /\ ret.stage = "recentered"
  /\ Len(ret.hexCoords) > 1
  /\ ret.to.zoom = FitZoom
  /\ RLt(ret.zoomLimits.min, ret.to.zoom)
  /\ RLt(ret.to.zoom, ret.zoomLimits.max)

----------------------------------------------------------------------------
(* A drag gesture: mouse down, then pointer moves and wheel steps at the   *)
(* pointer, then mouse up.  ret holds the zoom, pan, isDragging and        *)
(* dragStart states of the HexGrid and the position of the pointer.        *)

(* the gestures explored have up to this many moves and wheel steps *)
MaxGestureSteps == 3

(* the pans a gesture starts from *)
StartPans == {ZeroPan, <<R(100), R(-50)>>}

InitDrag ==
  /\ Idle
  /\ call \in [fn : {"drag"}, down : MousePoints, pan : StartPans,
               zoom : {R(1), R(2)}]
  /\ ret = [isDragging |-> FALSE, released |-> FALSE]

(* the zoomLimits of a grid of radius 25 in a 1200 x 900 container *)
DragLimits == zoomLimits(R(25), 1200, 900)

(* handlePanStart: dragStart = pointer - pan *)
PanStartCall ==
  /\ ~ret.isDragging /\ ~ret.released
  /\ Returns([isDragging |-> TRUE, released |-> FALSE, zoom |-> call.zoom,
              pan |-> call.pan,
              dragStart |-> <<RSub(R(call.down[1]), call.pan[1]),
                              RSub(R(call.down[2]), call.pan[2])>>,
              pointer |-> call.down, steps |-> 0])

(* handleWheel at the pointer while the button is held *)
DragWheelCall(delta) ==
  /\ ret.isDragging /\ ret.steps < MaxGestureSteps
  /\ LET zoomed(t) == [ret EXCEPT !.zoom = t.zoom, !.pan = t.pan,
                                  !.steps = @ + 1]
     IN  Returns(zoomed(handleZoom(ret.zoom, ret.pan, DragLimits, delta,
                                   ret.pointer)))

(* handleGlobalMouseMove: the pointer moves to mouse *)
DragMoveCall(mouse) ==
  /\ ret.isDragging /\ ret.steps < MaxGestureSteps
  /\ Returns([ret EXCEPT !.pan = dragPan(ret.dragStart, mouse),
                         !.pointer = mouse, !.steps = @ + 1])

(* handleGlobalMouseUp *)
MouseUpCall ==
  /\ ret.isDragging
  /\ Returns([ret EXCEPT !.isDragging = FALSE, !.released = TRUE])

NextDrag ==
  \/ PanStartCall
  \/ \E delta \in {-1, 1} : DragWheelCall(delta)
  \/ \E mouse \in MousePoints : DragMoveCall(mouse)
  \/ MouseUpCall

SpecDrag == InitDrag /\ [][NextDrag]_vars

(* C25: within a drag gesture, whatever wheel zooms are interleaved, each *)
(* pointer move changes the pan by exactly the displacement of the        *)
(* pointer since its previous position and leaves the zoom unchanged.     *)
C25_PanFollowsPointer ==
  [][\A mouse \in MousePoints :
       DragMoveCall(mouse) =>
         /\ ret'.pan = <<RAdd(ret.pan[1], R(mouse[1] - ret.pointer[1])),
                         RAdd(ret.pan[2], R(mouse[2] - ret.pointer[2]))>>
         /\ ret'.zoom = ret.zoom]_vars

----------------------------------------------------------------------------
(* Drag listeners of the window                                            *)

(* C26: window mousemove and mouseup listeners of the drag are registered *)
(* exactly while a drag is in progress: after any sequence of mouse down,  *)
(* move, mouse up, wheel and re-render events one of each is present iff   *)
(* isDragging, never more, and none after mouse up or teardown.            *)
C26_DragListenersWhileDragging ==
  /\ grid.dragListeners.mousemove = IF grid.mounted /\ grid.isDragging THEN 1 ELSE 0
  /\ grid.dragListeners.mouseup = IF grid.mounted /\ grid.isDragging THEN 1 ELSE 0

(* a drag in progress that has moved the grid, with its two listeners *)
C26_Witness ==
  /\ grid.mounted /\ grid.isDragging
  /\ grid.pan # ZeroPan
  /\ grid.dragListeners = [mousemove |-> 1, mouseup |-> 1]

----------------------------------------------------------------------------
(* Text measurement: measureText and its cache of widths                   *)

TEXT_CACHE_MAX_SIZE == 1000

(* `${text}-${fontSize}` for a whole fontSize *)
cacheKey(text, fontSize) == text \o "-" \o ToString(fontSize)

(* textMeasureCache.get(key): the entries of the key, at most one *)
cacheGet(cache, key) == SelectSeq(cache, LAMBDA e : e.key = key)

(* measureText that deletes the newest key when the cache is too large *)
measureTextEvictsNewest(cache, text, fontSize, hasContext, canvasWidth) ==
  LET key == cacheKey(text, fontSize)
      set == cache \o <<[key |-> key, width |-> canvasWidth]>>
  IN  IF cacheGet(cache, key) # <<>>
      THEN [cache |-> cache, width |-> cacheGet(cache, key)[1].width,
            measured |-> FALSE]
      ELSE IF ~hasContext
      THEN [cache |-> cache, width |-> Frac(Len(text) * fontSize * 6, 10),
            measured |-> FALSE]
      ELSE [cache |-> IF Len(set) > TEXT_CACHE_MAX_SIZE
                      THEN SubSeq(set, 1, Len(set) - 1) ELSE set,
            width |-> canvasWidth, measured |-> TRUE]

(* measureText(text, fontSize) with the cache as it is; canvasWidth is    *)
(* what the canvas measures for the text.  The result is the cache after   *)
(* the call, the width returned, and whether the canvas measured.          *)
measureText(cache, text, fontSize, hasContext, canvasWidth) ==
  LET key == cacheKey(text, fontSize)
      set == cache \o <<[key |-> key, width |-> canvasWidth]>>
  IN  IF cacheGet(cache, key) # <<>>
      THEN [cache |-> cache, width |-> cacheGet(cache, key)[1].width,
            measured |-> FALSE]
      ELSE IF ~hasContext
      THEN [cache |-> cache, width |-> Frac(Len(text) * fontSize * 6, 10),
            measured |-> FALSE]
      ELSE [cache |-> IF Len(set) > TEXT_CACHE_MAX_SIZE THEN Tail(set) ELSE set,
            width |-> canvasWidth, measured |-> TRUE]

(* the measureText calls explored after the cache was filled *)
MaxMeasureCalls == 3

(* the label texts t1, t2, ... measured at font size 10 fill the cache *)
LabelText(i) == "t" \o ToString(i)

FilledCache(n) ==
  [i \in 1..n |-> [key |-> cacheKey(LabelText(i), 10), width |-> R(12)]]

MeasuredTexts == {LabelText(1), LabelText(2), "new"}

FontSizes == {10, 12}

(* the widths the canvas reports for a text: per character, half the font *)
(* size or six tenths of it, as the fonts loaded decide                    *)
CanvasWidths(text, fontSize) ==
  {Frac(Len(text) * fontSize * k, 10) : k \in {5, 6}}

InitMeasure ==
  /\ call \in [fn : {"measureText"}, hasContext : BOOLEAN]
  /\ ret = [calls |-> 0]
  /\ \E n \in {0, TEXT_CACHE_MAX_SIZE - 1, TEXT_CACHE_MAX_SIZE} :
       textMeasureCache = IF call.hasContext THEN FilledCache(n) ELSE <<>>
  /\ rawData = <<>>
  /\ isLoading = FALSE
  /\ containerSize = <<1200, 900>>
  /\ groupByState = InitialGroupByState
  /\ grid = NoGrid
  /\ hdr = NoHdr
  /\ timers = <<>>
  /\ emitted = NoEvent
  /\ budget = 0

(* one call of measureText *)
MeasureTextCall(text, fontSize, canvasWidth) ==
  /\ call.fn = "measureText"
  /\ ret.calls < MaxMeasureCalls
  /\ LET returned(m) ==
           /\ textMeasureCache' = m.cache
           /\ ret' = [calls |-> ret.calls + 1, text |-> text,
                      fontSize |-> fontSize, width |-> m.width,
                      measured |-> m.measured]
     IN  returned(measureText(textMeasureCache, text, fontSize, call.hasContext,
                              canvasWidth))
  /\ UNCHANGED <<call, appVars>>

NextMeasure ==
  \E text \in MeasuredTexts, fontSize \in FontSizes :
    \E canvasWidth \in CanvasWidths(text, fontSize) :
      MeasureTextCall(text, fontSize, canvasWidth)

SpecMeasure == InitMeasure /\ [][NextMeasure]_vars

(* the entry the cache holds for a text and a font size, if any *)
Cached(text, fontSize) == cacheGet(textMeasureCache, cacheKey(text, fontSize))

(* C27: the cache never holds more than TEXT_CACHE_MAX_SIZE entries; an   *)
(* insertion into a full cache evicts the entry inserted first; a hit      *)
(* returns the width stored for the (text, fontSize) key and measures      *)
(* nothing.                                                                *)
C27_CacheBoundedOldestEvicted ==
  /\ [](Len(textMeasureCache) <= TEXT_CACHE_MAX_SIZE)
  /\ [][\A text \in MeasuredTexts, fontSize \in FontSizes :
          \A canvasWidth \in CanvasWidths(text, fontSize) :
            MeasureTextCall(text, fontSize, canvasWidth) =>
              IF Cached(text, fontSize) # <<>>
              THEN /\ ret'.width = Cached(text, fontSize)[1].width
                   /\ ~ret'.measured
                   /\ textMeasureCache' = textMeasureCache
              ELSE call.hasContext =>
                     /\ ret'.measured
                     /\ textMeasureCache' =
                          (IF Len(textMeasureCache) = TEXT_CACHE_MAX_SIZE
                           THEN Tail(textMeasureCache) ELSE textMeasureCache)
                          \o <<[key |-> cacheKey(text, fontSize),
                                width |-> canvasWidth]>>]_vars

(* the full cache after t1, its oldest entry, was evicted for a new text, *)
(* and t1 is measured again                                                *)
C27_Witness ==
  /\ Len(textMeasureCache) = TEXT_CACHE_MAX_SIZE
  /\ textMeasureCache[1].key = cacheKey(LabelText(3), 10)
  /\ ret.calls = 2 /\ ret.text = LabelText(1) /\ ret.measured

----------------------------------------------------------------------------
(* Direction of a wheel step                                               *)

(* C28: from every reachable viewport state a zoom-in step (delta > 0)    *)
(* never yields a zoom smaller than the zoom before it, and a zoom-out     *)
(* step (delta < 0) never a larger one.                                    *)
C28_WheelZoomMonotone ==
  [][\A delta \in {-1, 1}, mouse \in MousePoints :
       handleWheel(delta, mouse) =>
         /\ delta > 0 => RLe(grid.zoom, grid'.zoom)
         /\ delta < 0 => RLe(grid'.zoom, grid.zoom)]_vars

----------------------------------------------------------------------------
(* Selecting a group header twice                                          *)

(* the drill-down state after two clicks on the header of groupValue *)
ClickedTwice(groupValue) == groupClick(groupClick(groupByState, groupValue), groupValue)

(* C29: clicking a group header and then the same header again is a round *)
(* trip: filterStack, currentLevel and selectedGroupValue are what they    *)
(* were before the first click; and whenever selectedGroupValue is set the *)
(* last filterStack entry is the one that selection added.                 *)
C29_SelectTwiceRoundTrip ==
  /\ \A i \in ClickableHeaders :
       LET twice == ClickedTwice(hdr.groupLabels[i].groupValue)
       IN  /\ twice.filterStack = groupByState.filterStack
           /\ twice.currentLevel = groupByState.currentLevel
           /\ twice.selectedGroupValue = groupByState.selectedGroupValue
  /\ groupByState.selectedGroupValue # Undef =>
       /\ Len(groupByState.filterStack) > 0
       /\ groupByState.filterStack[Len(groupByState.filterStack)]
            = [labelKey |-> groupByState.groupKey,
               labelValue |-> groupByState.selectedGroupValue,
               level |-> groupByState.currentLevel - 1]

(* a selected group whose header can be clicked again *)
C29_Witness ==
  /\ groupByState.selectedGroupValue # Undef
  /\ \E i \in ClickableHeaders :
       hdr.groupLabels[i].groupValue = groupByState.selectedGroupValue

----------------------------------------------------------------------------
(* Culling and the visible hexagons                                        *)

(* the hexagon of the cell, centre +/- cellRadius, meets the visible *)
(* logical rectangle [-pan / zoom, (-pan + rect) / zoom]               *)
MeetsView(cell) ==
  /\ RLe(RDiv(R(-call.pan[1]), call.zoom), RAdd(cell.x, R(16)))
  /\ RLe(RSub(cell.x, R(16)), RDiv(R(1200 - call.pan[1]), call.zoom))
  /\ RLe(RDiv(R(-call.pan[2]), call.zoom), RAdd(cell.y, R(16)))
  /\ RLe(RSub(cell.y, R(16)), RDiv(R(900 - call.pan[2]), call.zoom))

(* C30: culling never hides a visible cell: above the virtualization      *)
(* threshold every cell whose hexagon meets the visible logical rectangle  *)
(* is in the culled result.                                                *)
C30_CullKeepsVisibleCells ==
  ret.done /\ Len(call.cells) > virtualizationThreshold =>
    \A i \in 1..Len(call.cells) :
      MeetsView(call.cells[i]) =>
        \E k \in 1..Len(ret.cells) : ret.cells[k] = call.cells[i]

(* a culled result that dropped cells and kept a hexagon lying across an *)
(* edge of the view, its centre outside                                   *)
C30_Witness ==
  /\ ret.done
  /\ Len(call.cells) > virtualizationThreshold
  /\ Len(ret.cells) < Len(call.cells)
  /\ \E k \in 1..Len(ret.cells) :
       /\ MeetsView(ret.cells[k])
       /\ \/ RLt(ret.cells[k].x, RDiv(R(-call.pan[1]), call.zoom))
          \/ RLt(RDiv(R(1200 - call.pan[1]), call.zoom), ret.cells[k].x)
          \/ RLt(ret.cells[k].y, RDiv(R(-call.pan[2]), call.zoom))
          \/ RLt(RDiv(R(900 - call.pan[2]), call.zoom), ret.cells[k].y)

====
